---- MODULE Spec2Model ----
(***************************************************************************)
(* Control plane of the posting/analytics orchestrator: budget ledger,     *)
(* guard manager, posting worker and daily routine over one relational     *)
(* store accessed through SQLAlchemy sessions created with autoflush=False.*)
(*                                                                         *)
(* Money is counted in cents (1.00 == 100).  A datetime is a record        *)
(* [wall, off]: the wall-clock reading and its UTC offset, off = NAIVE for *)
(* a timezone-less value; one day has DayLen ticks.                        *)
(***************************************************************************)
EXTENDS Integers, Sequences, FiniteSets, TLC

VARIABLES
    lsess,      \* ledger harness: one open session (CostLog rows) and one BudgetLedger
    lout,       \* ledger harness: the last ledger call and its outcome
    gagent,     \* guard harness: the Agent row
    gaudit,     \* guard harness: the AuditLog rows of the agent, in id order
    gpdca,      \* guard harness: analytics_summary.auto_stop of today's DailyPDCA
    gnow,       \* guard harness: the clock
    gout,       \* guard harness: the last guard call and its outcome
    store,      \* worker harness: the committed rows of the database
    env,        \* worker harness: the process environment
    clock,      \* worker harness: the clock
    plat,       \* worker harness: per post, the publications the platform accepted
    runs,       \* worker harness: the handler calls made so far
    workers,    \* worker harness: per concurrent posting worker, its open transaction
    ret,        \* worker harness: the last handler call and what it returned
    oauth,      \* OAuth harness: the oauth_states and x_auth_tokens rows, the clock, the calls in progress
    plan,       \* planner harness: the arguments of one build_post_drafts call and what it gave
    fetches,    \* fetch harness: the committed FetchLog rows, the agent's web_fetch_max toggle, the last run
    tasks       \* task harness: the CostLog table and the sessions and ledgers of two concurrent tasks

vars == <<lsess, lout, gagent, gaudit, gpdca, gnow, gout, store, env, clock, plat, runs, workers, ret, oauth, plan, fetches, tasks>>
lvars == <<lsess, lout>>
gvars == <<gagent, gaudit, gpdca, gnow, gout>>
pvars == <<store, env, clock, plat, runs, workers, ret>>
ovars == <<oauth, plan, fetches, tasks>>

NULL == "null"
NAIVE == "naive"

----------------------------------------------------------------------------
(* Bounds *)

MaxBudget == 2          \* limits daily_budget, budget_split_x, budget_split_llm range over 0..MaxBudget
MaxCostRows == 2        \* CostLog rows one session may hold
MaxSpend == 200         \* cap, in cents, on the total of one CostLog row in the ledger harness
MaxTime == 3            \* the clock runs over 0..MaxTime
MaxAudit == 3           \* AuditLog rows in the guard harness
MaxClock == 2           \* the clock of the worker harness runs over 0..MaxClock
MaxRuns == 2            \* handler calls in one behaviour of the worker harness
MaxActions == 2         \* EngagementAction rows in the rate limiter harness
MaxOTime == 6           \* the clock of the OAuth harness runs over 0..MaxOTime
MaxOCalls == 4          \* handler calls in one behaviour of the OAuth harness
MaxStates == 2          \* oauth_states rows /oauth/x/start creates in one behaviour

Agents == {1, 2}
Dates == {0, 1}

----------------------------------------------------------------------------
(* Generic helpers *)

RECURSIVE SeqSum(_)
SeqSum(s) == IF s = <<>> THEN 0 ELSE Head(s) + SeqSum(Tail(s))

Range(s) == {s[i] : i \in DOMAIN s}

Min(a, b) == IF a <= b THEN a ELSE b
Max(a, b) == IF a >= b THEN a ELSE b

----------------------------------------------------------------------------
(* BudgetLedger over the CostLog table                                     *)
(*                                                                         *)
(* A CostLog row of the session: mem is the ORM object's attribute values, *)
(* db the values last flushed to the database, inDb whether the INSERT has *)
(* been flushed.  SQL statements (SUM, SELECT) see db of inDb rows only:   *)
(* the sessions are created with autoflush=False.                          *)

ZeroAmt == [x |-> 0, xe |-> 0, llm |-> 0, total |-> 0]

CostRow(a, d, amt, indb) == [agent |-> a, date |-> d, mem |-> amt, db |-> IF indb THEN amt ELSE ZeroAmt, inDb |-> indb]

\* BudgetLedger.__init__
NewLedger(a, d, daily, sx, sllm) ==
    [agent |-> a, date |-> d,
     daily_limit |-> daily * 100, x_limit |-> sx * 100, llm_limit |-> sllm * 100,
     x_reserved |-> 0, llm_reserved |-> 0]

\* the rows the WHERE agent_id = a AND date = d of a SQL statement matches
CostMatch(cost, a, d) == {i \in DOMAIN cost : cost[i].inDb /\ cost[i].agent = a /\ cost[i].date = d}

RECURSIVE SumOver(_, _, _)
SumOver(cost, idx, f) ==
    IF idx = {} THEN 0
    ELSE LET i == CHOOSE j \in idx : TRUE
         IN cost[i].db[f] + SumOver(cost, idx \ {i}, f)

\* BudgetLedger._spent
Spent(cost, L) ==
    LET m == CostMatch(cost, L.agent, L.date)
    IN [x |-> SumOver(cost, m, "x"), llm |-> SumOver(cost, m, "llm"), total |-> SumOver(cost, m, "total")]

\* a reserve that forgets the daily limit
ReserveOk_NoDaily(cost, L, x_cost, llm_cost) ==
    LET m == {i \in DOMAIN cost : cost[i].inDb /\ cost[i].agent = L.agent /\ cost[i].date = L.date}
        next_x == SumOver(cost, m, "x") + L.x_reserved + x_cost
        next_llm == SumOver(cost, m, "llm") + L.llm_reserved + llm_cost
    IN ~(next_x > L.x_limit \/ next_llm > L.llm_limit)

\* BudgetLedger.reserve: FALSE stands for raising BudgetExceededError
ReserveOk(cost, L, x_cost, llm_cost) ==
    LET sp == Spent(cost, L)
        next_x == sp.x + L.x_reserved + x_cost
        next_llm == sp.llm + L.llm_reserved + llm_cost
        next_total == sp.total + L.x_reserved + L.llm_reserved + x_cost + llm_cost
    IN ~(next_x > L.x_limit \/ next_llm > L.llm_limit \/ next_total > L.daily_limit)

Reserve(cost, L, x_cost, llm_cost) ==
    IF ReserveOk(cost, L, x_cost, llm_cost)
    THEN [L EXCEPT !.x_reserved = @ + x_cost, !.llm_reserved = @ + llm_cost]
    ELSE L

\* a commit that forgets x_api_cost_estimate when it updates an existing row
LedgerCommit_NoEstimate(cost, L) ==
    IF L.x_reserved = 0 /\ L.llm_reserved = 0
    THEN [cost |-> cost, ledger |-> L]
    ELSE LET m == {i \in DOMAIN cost : cost[i].inDb /\ cost[i].agent = L.agent /\ cost[i].date = L.date}
             total_reserved == L.x_reserved + L.llm_reserved
             L2 == [L EXCEPT !.x_reserved = 0, !.llm_reserved = 0]
         IN IF m = {}
            THEN [cost |-> Append(cost,
                              [agent |-> L.agent, date |-> L.date,
                               mem |-> [x |-> L.x_reserved, xe |-> L.x_reserved,
                                        llm |-> L.llm_reserved, total |-> total_reserved],
                               db |-> ZeroAmt, inDb |-> FALSE]),
                  ledger |-> L2]
            ELSE LET i == CHOOSE j \in m : \A k \in m : j <= k
                 IN [cost |-> [cost EXCEPT ![i].mem =
                                  [x |-> @.x + L.x_reserved, xe |-> @.xe,
                                   llm |-> @.llm + L.llm_reserved, total |-> @.total + total_reserved]],
                     ledger |-> L2]

\* BudgetLedger.commit: the new CostLog rows and the ledger afterwards
LedgerCommit(cost, L) ==
    IF L.x_reserved = 0 /\ L.llm_reserved = 0
    THEN [cost |-> cost, ledger |-> L]
    ELSE LET m == CostMatch(cost, L.agent, L.date)
             total_reserved == L.x_reserved + L.llm_reserved
             L2 == [L EXCEPT !.x_reserved = 0, !.llm_reserved = 0]
         IN IF m = {}
            THEN [cost |-> Append(cost,
                              [agent |-> L.agent, date |-> L.date,
                               mem |-> [x |-> L.x_reserved, xe |-> L.x_reserved,
                                        llm |-> L.llm_reserved, total |-> total_reserved],
                               db |-> ZeroAmt, inDb |-> FALSE]),
                  ledger |-> L2]
            ELSE LET i == CHOOSE j \in m : \A k \in m : j <= k
                 IN [cost |-> [cost EXCEPT ![i].mem =
                                  [x |-> @.x + L.x_reserved, xe |-> @.xe + L.x_reserved,
                                   llm |-> @.llm + L.llm_reserved, total |-> @.total + total_reserved]],
                     ledger |-> L2]

\* Session.flush restricted to the CostLog table: INSERT pending rows, UPDATE dirty ones
FlushCost(cost) == [i \in DOMAIN cost |-> [cost[i] EXCEPT !.db = cost[i].mem, !.inDb = TRUE]]

----------------------------------------------------------------------------
(* Ledger harness: one session, one ledger at a time, any call sequence *)

\* the harness that is not running: no row, no call yet
IdleAgent == [status |-> "active", stop_reason |-> NULL,
              stopped_at |-> [null |-> TRUE, wall |-> 0, tz |-> NAIVE],
              stop_until |-> [null |-> TRUE, wall |-> 0, tz |-> NAIVE]]
IdleOut == [op |-> "init"]
IdleStore == [migrated |-> TRUE, agents |-> (1 :> IdleAgent @@ 2 :> IdleAgent), posts |-> <<>>, cost |-> <<>>, audits |-> <<>>,
              pdca |-> <<>>, metrics |-> <<>>, engaged |-> <<>>]
IdleWorkers == [w \in {1, 2} |-> [pc |-> "idle", batch |-> <<>>, current |-> 0, marked |-> <<>>]]
NoToken == [present |-> FALSE, access_token |-> 0, refresh_token |-> 0, expires_at |-> 0]
IdleCallback == [pc |-> "idle", state |-> 0, account_id |-> 0]
IdlePlan == [called |-> FALSE]
IdleFetches == [rows |-> <<>>]
IdleTasks == [rows |-> <<>>]
IdleOAuth == [now |-> 0, calls |-> 0, minted |-> 0, states |-> {}, used |-> {}, failed |-> {},
              tokens |-> [a \in {1, 2} |-> NoToken], issued |-> 0,
              cb |-> [c \in {1, 2} |-> IdleCallback], out |-> IdleOut]
IdleEnv == [batch_size |-> [valid |-> TRUE, value |-> 1], real |-> FALSE, usage |-> "off", posts_per_day |-> 1]

CostChoices == {0, 100}

LedgerInitTables ==
    { <<>>,
      <<CostRow(1, 0, [x |-> 100, xe |-> 100, llm |-> 0, total |-> 100], TRUE)>>,
      <<CostRow(1, 0, [x |-> 0, xe |-> 0, llm |-> 100, total |-> 100], TRUE)>>,
      <<CostRow(1, 1, [x |-> 0, xe |-> 0, llm |-> 100, total |-> 100], TRUE)>>,
      <<CostRow(2, 0, [x |-> 100, xe |-> 100, llm |-> 100, total |-> 200], TRUE)>> }

LInit ==
    /\ lsess \in {[cost |-> t, ledger |-> NewLedger(1, 0, daily, sx, sllm)] :
                    t \in LedgerInitTables, daily \in 0..MaxBudget, sx \in 0..MaxBudget, sllm \in 0..MaxBudget}
    /\ lout = IdleOut
    /\ gagent = IdleAgent /\ gaudit = <<>> /\ gpdca = [exists |-> FALSE, auto_stop |-> <<>>]
    /\ gnow = 0 /\ gout = IdleOut /\ oauth = IdleOAuth /\ plan = IdlePlan /\ fetches = IdleFetches /\ tasks = IdleTasks
    /\ store = IdleStore /\ env = IdleEnv /\ clock = 0 /\ plat = <<>> /\ runs = 0 /\ workers = IdleWorkers /\ ret = IdleOut

\* a task drops its ledger and constructs a fresh one for the same agent and date
LNew ==
    /\ lsess' = [lsess EXCEPT !.ledger = [@ EXCEPT !.x_reserved = 0, !.llm_reserved = 0]]
    /\ lout' = [op |-> "new"]
    /\ UNCHANGED <<gvars, pvars, ovars>>

LReserve ==
    \E x \in CostChoices, l \in CostChoices :
        /\ lsess' = [lsess EXCEPT !.ledger = Reserve(lsess.cost, lsess.ledger, x, l)]
        /\ lout' = [op |-> "reserve", x |-> x, l |-> l,
                    raised |-> ~ReserveOk(lsess.cost, lsess.ledger, x, l)]
        /\ UNCHANGED <<gvars, pvars, ovars>>

LCommit ==
    /\ LET r == LedgerCommit(lsess.cost, lsess.ledger)
       IN /\ Len(r.cost) <= MaxCostRows
          /\ \A i \in DOMAIN r.cost : r.cost[i].mem.total <= MaxSpend
          /\ lsess' = [cost |-> r.cost, ledger |-> r.ledger]
    /\ lout' = [op |-> "commit"]
    /\ UNCHANGED <<gvars, pvars, ovars>>

LFlush ==
    /\ lsess' = [lsess EXCEPT !.cost = FlushCost(lsess.cost)]
    /\ lout' = [op |-> "flush"]
    /\ UNCHANGED <<gvars, pvars, ovars>>

LNext == LNew \/ LReserve \/ LCommit \/ LFlush

----------------------------------------------------------------------------
(* Datetimes *)

DayLen == 2

TzOff(tz) == IF tz = "plus1" THEN 1 ELSE 0

NullDt == [null |-> TRUE, wall |-> 0, tz |-> NAIVE]
Dt(w, z) == [null |-> FALSE, wall |-> w, tz |-> z]
UtcDt(t) == Dt(t, "utc")

\* datetime.replace(tzinfo=timezone.utc) applied to a timezone-less value only
AsUtc(dt) == IF dt.tz = NAIVE THEN [dt EXCEPT !.tz = "utc"] ELSE dt

\* the instant an aware datetime denotes; aware datetimes compare by instant
Instant(dt) == dt.wall - TzOff(dt.tz)

\* datetime.date() of an aware UTC datetime
DateOf(t) == t \div DayLen

----------------------------------------------------------------------------
(* GuardManager *)

AgentStatus == {"active", "paused", "disabled", "stopped"}

\* a guard under which a stop lapses once stop_until has passed
IsAgentRunnable_Expiring(agent, nowdt) ==
    IF agent.status \notin {"active", "stopped"} THEN FALSE
    ELSE IF agent.stop_until.null THEN agent.status = "active"
    ELSE Instant(AsUtc(agent.stop_until)) <= Instant(nowdt)

\* a guard that lets the agent run only strictly after stop_until
IsAgentRunnable_Strict(agent, nowdt) ==
    IF agent.status # "active" THEN FALSE
    ELSE IF agent.stop_until.null THEN TRUE
    ELSE Instant(AsUtc(agent.stop_until)) < Instant(nowdt)

\* GuardManager.is_agent_runnable
IsAgentRunnable(agent, nowdt) ==
    IF agent.status # "active" THEN FALSE
    ELSE IF agent.stop_until.null THEN TRUE
    ELSE Instant(AsUtc(agent.stop_until)) <= Instant(nowdt)

\* GuardManager.record_audit: the AuditLog row it adds to the session
AuditRow(agent_id, target_date, source, event_type, status, reason) ==
    [agent |-> agent_id, date |-> target_date, source |-> source,
     event_type |-> event_type, status |-> status, reason |-> reason]

\* a DailyPDCA row as far as the guard reads and writes it: auto_stop is
\* analytics_summary['auto_stop'] as <<reason, source>>, <<>> when absent
NoPdca == [exists |-> FALSE, auto_stop |-> <<>>]

\* an auto-stop that returns early on any stopped agent, whatever its reason
MaybeAutoStop_AnyReason(agent_id, agent, audits, pdca, nowt, reason, source) ==
    IF agent.status = "stopped"
    THEN [agent |-> agent, audits |-> audits, pdca |-> pdca]
    ELSE [agent |-> [agent EXCEPT !.status = "stopped", !.stop_reason = reason, !.stopped_at = UtcDt(nowt)],
          audits |-> Append(audits, AuditRow(agent_id, DateOf(nowt), source, "auto_stop", "triggered", reason)),
          pdca |-> IF pdca.exists THEN [pdca EXCEPT !.auto_stop = <<reason, source>>] ELSE pdca]

\* GuardManager.maybe_auto_stop on the Agent row, the audit rows and today's DailyPDCA
MaybeAutoStop(agent_id, agent, audits, pdca, nowt, reason, source) ==
    IF agent.status = "stopped" /\ agent.stop_reason = reason
    THEN [agent |-> agent, audits |-> audits, pdca |-> pdca]
    ELSE [agent |-> [agent EXCEPT !.status = "stopped", !.stop_reason = reason, !.stopped_at = UtcDt(nowt)],
          audits |-> Append(audits, AuditRow(agent_id, DateOf(nowt), source, "auto_stop", "triggered", reason)),
          pdca |-> IF pdca.exists THEN [pdca EXCEPT !.auto_stop = <<reason, source>>] ELSE pdca]

\* str.strip on the reasons the dashboard sends
Strip(r) == IF r = " maint " THEN "maint" ELSE IF r = "  " THEN "" ELSE r

\* stop_agent (POST /api/agents/{id}/stop); the 400 reason_required leaves everything as it is
StopAgent(agent_id, agent, audits, nowt, raw_reason, until) ==
    LET reason == Strip(raw_reason)
        stop_until == IF until.null THEN until ELSE AsUtc(until)
    IN IF reason = ""
       THEN [agent |-> agent, audits |-> audits]
       ELSE [agent |-> [agent EXCEPT !.status = "stopped", !.stop_reason = reason,
                                     !.stopped_at = UtcDt(nowt), !.stop_until = stop_until],
             audits |-> Append(audits, AuditRow(agent_id, DateOf(nowt), "dashboard", "manual_stop", "success", reason))]

\* a resume that leaves stop_until as the stop set it
ResumeAgent_KeepUntil(agent_id, agent, audits, nowt) ==
    [agent |-> [agent EXCEPT !.status = "active", !.stop_reason = NULL, !.stopped_at = NullDt],
     audits |-> Append(audits, AuditRow(agent_id, DateOf(nowt), "dashboard", "manual_resume", "success", NULL))]

\* resume_agent (POST /api/agents/{id}/resume)
ResumeAgent(agent_id, agent, audits, nowt) ==
    [agent |-> [agent EXCEPT !.status = "active", !.stop_reason = NULL,
                             !.stopped_at = NullDt, !.stop_until = NullDt],
     audits |-> Append(audits, AuditRow(agent_id, DateOf(nowt), "dashboard", "manual_resume", "success", NULL))]

----------------------------------------------------------------------------
(* Guard harness: one agent, any sequence of guard calls and dashboard requests *)

AutoReasons == {"auto_anomaly_posting_failures", "auto_anomaly_oauth_refresh_failures"}
Zones == {NAIVE, "utc", "plus1"}
UntilChoices == {NullDt} \cup {Dt(w, z) : w \in 0..MaxTime, z \in Zones}

GInitAgents ==
    {[status |-> st, stop_reason |-> NULL, stopped_at |-> NullDt, stop_until |-> su] :
        st \in AgentStatus, su \in UntilChoices}

GInit ==
    /\ gagent \in GInitAgents
    /\ gaudit = <<>>
    /\ gpdca \in {NoPdca, [exists |-> TRUE, auto_stop |-> <<>>]}
    /\ gnow = 0
    /\ gout = IdleOut /\ oauth = IdleOAuth /\ plan = IdlePlan /\ fetches = IdleFetches /\ tasks = IdleTasks
    /\ lsess = [cost |-> <<>>, ledger |-> NewLedger(1, 0, 0, 0, 0)]
    /\ lout = IdleOut
    /\ store = IdleStore /\ env = IdleEnv /\ clock = 0 /\ plat = <<>> /\ runs = 0 /\ workers = IdleWorkers /\ ret = IdleOut

GTick ==
    /\ gnow < MaxTime
    /\ gnow' = gnow + 1
    /\ gout' = [op |-> "tick"]
    /\ UNCHANGED <<gagent, gaudit, gpdca, lvars, pvars, ovars>>

GCheckRunnable ==
    /\ gout' = [op |-> "runnable", result |-> IsAgentRunnable(gagent, UtcDt(gnow))]
    /\ UNCHANGED <<gagent, gaudit, gpdca, gnow, lvars, pvars, ovars>>

GMaybeAutoStop ==
    \E reason \in AutoReasons :
        LET source == IF reason = "auto_anomaly_posting_failures" THEN "posting_jobs" ELSE "oauth"
            r == MaybeAutoStop(1, gagent, gaudit, gpdca, gnow, reason, source)
        IN /\ Len(r.audits) <= MaxAudit
           /\ gagent' = r.agent
           /\ gaudit' = r.audits
           /\ gpdca' = r.pdca
           /\ gout' = [op |-> "auto_stop", reason |-> reason, changed |-> r.agent # gagent \/ r.audits # gaudit]
           /\ UNCHANGED <<gnow, lvars, pvars, ovars>>

GStop ==
    \E raw \in {"maint", " maint ", "  "}, until \in UntilChoices :
        LET r == StopAgent(1, gagent, gaudit, gnow, raw, until)
        IN /\ Len(r.audits) <= MaxAudit
           /\ gagent' = r.agent
           /\ gaudit' = r.audits
           /\ Strip(raw) = "" => until = NullDt
           /\ gout' = [op |-> "stop", rejected |-> Strip(raw) = "", raw |-> raw, until |-> until]
           /\ UNCHANGED <<gpdca, gnow, lvars, pvars, ovars>>

GResume ==
    LET r == ResumeAgent(1, gagent, gaudit, gnow)
    IN /\ Len(r.audits) <= MaxAudit
       /\ gagent' = r.agent
       /\ gaudit' = r.audits
       /\ gout' = [op |-> "resume"]
       /\ UNCHANGED <<gpdca, gnow, lvars, pvars, ovars>>

GNext == GTick \/ GCheckRunnable \/ GMaybeAutoStop \/ GStop \/ GResume


----------------------------------------------------------------------------
(* Post content and its dedupe key                                         *)
(*                                                                         *)
(* A text is a sequence of one-character strings.  content_hash is the     *)
(* SHA-256 of the normalized text; SHA-256 is taken to be collision free,  *)
(* so the hash is the normalized text behind a marker and NoHash is NULL.  *)

IsSpace(c) == c \in {" ", "\n"}

Lower(c) == IF c = "A" THEN "a" ELSE IF c = "B" THEN "b" ELSE c

\* str.split(): the maximal runs of non-whitespace characters
RECURSIVE SplitWords(_, _, _)
SplitWords(s, word, acc) ==
    IF s = <<>> THEN (IF word = <<>> THEN acc ELSE Append(acc, word))
    ELSE IF IsSpace(Head(s))
         THEN SplitWords(Tail(s), <<>>, IF word = <<>> THEN acc ELSE Append(acc, word))
         ELSE SplitWords(Tail(s), Append(word, Head(s)), acc)

\* sep.join(words)
RECURSIVE Join(_, _)
Join(words, sep) ==
    IF words = <<>> THEN <<>>
    ELSE IF Len(words) = 1 THEN Head(words)
    ELSE Head(words) \o <<sep>> \o Join(Tail(words), sep)

\* str.strip()
RECURSIVE LStrip(_)
LStrip(s) == IF s # <<>> /\ IsSpace(Head(s)) THEN LStrip(Tail(s)) ELSE s

RECURSIVE RStrip(_)
RStrip(s) == IF s # <<>> /\ IsSpace(s[Len(s)]) THEN RStrip(SubSeq(s, 1, Len(s) - 1)) ELSE s

StripText(s) == RStrip(LStrip(s))

\* str.lower()
LowerText(s) == [i \in DOMAIN s |-> Lower(s[i])]

\* the thread parts that survive `part.strip() for part in thread_parts if part.strip()`
RECURSIVE StrippedParts(_)
StrippedParts(parts) ==
    IF parts = <<>> THEN <<>>
    ELSE IF StripText(Head(parts)) = <<>> THEN StrippedParts(Tail(parts))
    ELSE <<StripText(Head(parts))>> \o StrippedParts(Tail(parts))

\* normalize_post_content
NormalizePostContent(content, thread_parts) ==
    LET base == IF thread_parts # <<>> THEN Join(StrippedParts(thread_parts), "\n") ELSE content
    IN LowerText(StripText(Join(SplitWords(base, <<>>, <<>>), " ")))

NoHash == <<>>

\* a content hash that forgets to lower-case
BuildPostContentHash_CaseSensitive(content, thread_parts) ==
    LET base == IF thread_parts # <<>> THEN Join(StrippedParts(thread_parts), "\n") ELSE content
    IN <<"#">> \o StripText(Join(SplitWords(base, <<>>, <<>>), " "))

\* build_post_content_hash
BuildPostContentHash(content, thread_parts) == <<"#">> \o NormalizePostContent(content, thread_parts)

----------------------------------------------------------------------------
(* The store: the committed rows of the database                           *)
(*                                                                         *)
(* Times are clock ticks, dates are days; NoTime and NoDate are NULL.      *)
(* Post ids are the positions in the posts table.  external_id is <<>>     *)
(* while NULL, <<p, n>> for the n-th publication of post p and <<0, k>>    *)
(* for the k-th post the platform holds that this system did not publish.  *)

NoTime == 0 - 1
NoDate == 0 - 1
NoExt == <<>>

PostTypes == {"tweet", "thread", "reply", "quote_rt"}

\* a Post row that is scheduled and not published; target is the shape of
\* target_post_url: "none" (missing), "bad" (no tweet id in it) or "ok"
NewPost(agent_id, content, thread_parts, type, target, scheduled_at, content_hash, bucket) ==
    [agent |-> agent_id, content |-> content, thread_parts |-> thread_parts, type |-> type,
     target |-> target, scheduled_at |-> scheduled_at, posted_at |-> NoTime, external_id |-> NoExt,
     content_hash |-> content_hash, content_bucket_date |-> bucket]

\* a schema whose only unique constraint on posts is uq_posts_agent_external_id
PostsUnique_ExternalIdOnly(posts, migrated) ==
    \A i, j \in DOMAIN posts :
        (i < j /\ posts[i].agent = posts[j].agent) =>
            ~(posts[i].external_id # NoExt /\ posts[i].external_id = posts[j].external_id)

\* uq_posts_agent_external_id, and uq_posts_agent_content_dedupe in a schema
\* the migrations built (Base.metadata.create_all does not create it); NULLs never collide
PostsUnique(posts, migrated) ==
    \A i, j \in DOMAIN posts :
        (i < j /\ posts[i].agent = posts[j].agent) =>
            /\ ~(/\ migrated
                 /\ posts[i].content_hash # NoHash
                 /\ posts[i].content_bucket_date # NoDate
                 /\ posts[i].content_hash = posts[j].content_hash
                 /\ posts[i].content_bucket_date = posts[j].content_bucket_date)
            /\ ~(posts[i].external_id # NoExt /\ posts[i].external_id = posts[j].external_id)

\* an Agent row: the guard fields and the budget columns (whole currency units)
AgentRow(status, stop_until, daily_budget, split_x, split_llm) ==
    [status |-> status, stop_reason |-> NULL, stopped_at |-> NullDt, stop_until |-> stop_until,
     daily_budget |-> daily_budget, budget_split_x |-> split_x, budget_split_llm |-> split_llm]

\* a DailyPDCA row of a session: errors counts analytics_summary.posting_errors,
\* error is the exception type under analytics_summary.error (NULL when absent),
\* analysis is analysis.status, reason is analysis.reason and summary is
\* analytics_summary.reason (NULL when absent), inDb whether the INSERT has
\* been flushed
PdcaRow(agent_id, d, analysis, indb) ==
    [agent |-> agent_id, date |-> d, analysis |-> analysis, reason |-> NULL, summary |-> NULL,
     errors |-> 0, error |-> NULL, auto_stop |-> <<>>, inDb |-> indb]

\* a DailyPDCA row as a skip branch of the daily routine constructs it
SkipPdca(agent_id, d, analysis, reason) ==
    [PdcaRow(agent_id, d, analysis, FALSE) EXCEPT !.reason = reason, !.summary = reason]

PdcaMatch(pdca, agent_id, d) == {i \in DOMAIN pdca : pdca[i].inDb /\ pdca[i].agent = agent_id /\ pdca[i].date = d}

FlushPdca(pdca) == [i \in DOMAIN pdca |-> [pdca[i] EXCEPT !.inDb = TRUE]]

\* a confirmed PostMetrics row of a session: the post it belongs to, inDb whether the INSERT has been flushed
MetricsRow(p, indb) == [post |-> p, inDb |-> indb]

FlushMetrics(metrics) == [i \in DOMAIN metrics |-> [metrics[i] EXCEPT !.inDb = TRUE]]

MinOf(S) == CHOOSE i \in S : \A k \in S : i <= k

----------------------------------------------------------------------------
(* One session (SessionLocal(), autoflush=False) of a handler call          *)
(*                                                                         *)
(* posts are the ORM objects, pdb the rows as last flushed: SELECTs read   *)
(* pdb.  A flush that violates a unique constraint raises IntegrityError   *)
(* and leaves the session unusable, so the handler raises and the         *)
(* transaction is rolled back; calls counts the publications the platform  *)
(* accepted, which no rollback undoes, refused the posts whose publication *)
(* the poster answered with an exception.                                  *)

OpenSession(st, calls) ==
    [migrated |-> st.migrated, agents |-> st.agents, posts |-> st.posts, pdb |-> st.posts, cost |-> st.cost,
     audits |-> st.audits, pdca |-> st.pdca, metrics |-> st.metrics, engaged |-> st.engaged,
     results |-> <<>>, attempts |-> 0, calls |-> calls, refused |-> <<>>, raised |-> FALSE]

\* Session.flush
Flush(S) ==
    IF ~PostsUnique(S.posts, S.migrated) THEN [S EXCEPT !.raised = TRUE]
    ELSE [S EXCEPT !.pdb = S.posts, !.cost = FlushCost(S.cost), !.pdca = FlushPdca(S.pdca),
                   !.metrics = FlushMetrics(S.metrics)]

\* Session.commit: the store after the transaction, the store before it when the flush fails
Commit(st, S) ==
    LET F == Flush(S)
    IN IF S.raised \/ F.raised THEN st
       ELSE [st EXCEPT !.agents = F.agents, !.posts = F.pdb, !.cost = F.cost, !.audits = F.audits,
                       !.pdca = F.pdca, !.metrics = F.metrics]

Audit(S, agent_id, d, source, event_type, status, reason) ==
    [S EXCEPT !.audits = Append(@, AuditRow(agent_id, d, source, event_type, status, reason))]

Result(S, p, status, reason) ==
    [S EXCEPT !.results = Append(@, [post |-> p, status |-> status, reason |-> reason])]
----------------------------------------------------------------------------
(* Posting worker: run_posting_jobs *)

\* the reason a guard skip is audited and returned with
SkipReason(agent) == IF agent.status = "stopped" THEN "agent_stopped" ELSE "agent_status_" \o agent.status

\* the first n elements of a sequence
Take(s, n) == SubSeq(s, 1, Min(n, Len(s)))

\* ORDER BY scheduled_at ASC, id ASC over a set of post ids
RECURSIVE SortDue(_, _)
SortDue(posts, ids) ==
    IF ids = {} THEN <<>>
    ELSE LET first == CHOOSE i \in ids :
                          \A k \in ids : \/ posts[i].scheduled_at < posts[k].scheduled_at
                                         \/ (posts[i].scheduled_at = posts[k].scheduled_at /\ i <= k)
         IN <<first>> \o SortDue(posts, ids \ {first})

\* _posting_batch_size on the text of POSTING_BATCH_SIZE ("10" when unset)
PostingBatchSize(raw) == IF raw.valid THEN Max(1, raw.value) ELSE 10

\* a claim that takes every unpublished post, due or not
ClaimDuePosts_AnySchedule(posts, current, batch_size, locked) ==
    LET due == {i \in DOMAIN posts : posts[i].posted_at = NoTime /\ i \notin locked}
    IN Take(SortDue(posts, due), batch_size)

\* _due_posts_claim_query / _claim_due_posts: locked are the rows other
\* transactions hold FOR UPDATE, which SKIP LOCKED passes over
ClaimDuePosts(posts, current, batch_size, locked) ==
    LET due == {i \in DOMAIN posts : /\ posts[i].scheduled_at # NoTime
                                     /\ posts[i].scheduled_at <= current
                                     /\ posts[i].posted_at = NoTime
                                     /\ i \notin locked}
    IN Take(SortDue(posts, due), batch_size)

\* _append_pdca_error
AppendPdcaError(pdca, agent_id, d) ==
    LET m == PdcaMatch(pdca, agent_id, d)
    IN IF m = {} THEN Append(pdca, PdcaRow(agent_id, d, "posting_failed", FALSE))
       ELSE [pdca EXCEPT ![MinOf(m)].errors = @ + 1]

\* a failure count that looks at the last two rows only
RecentConsecutiveFailures_Two(audits, agent_id, source, event_type) ==
    LET idx == {i \in DOMAIN audits : /\ audits[i].agent = agent_id
                                      /\ audits[i].source = source
                                      /\ audits[i].event_type = event_type}
        last == {i \in idx : Cardinality({k \in idx : k > i}) < 2}
    IN IF Cardinality(last) < 2 THEN 0
       ELSE IF \A i \in last : audits[i].status = "failed" THEN 3 ELSE 0

\* _recent_consecutive_failures after its flush: audits are all the AuditLog rows in id order
RecentConsecutiveFailures(audits, agent_id, source, event_type) ==
    LET idx == {i \in DOMAIN audits : /\ audits[i].agent = agent_id
                                      /\ audits[i].source = source
                                      /\ audits[i].event_type = event_type}
        last == {i \in idx : Cardinality({k \in idx : k > i}) < 3}
    IN IF Cardinality(last) < 3 THEN 0
       ELSE IF \A i \in last : audits[i].status = "failed" THEN Cardinality(last) ELSE 0

\* guard.maybe_auto_stop inside a session
SessionAutoStop(S, agent_id, current, reason, source) ==
    LET m == PdcaMatch(S.pdca, agent_id, DateOf(current))
        pd == IF m = {} THEN NoPdca ELSE [exists |-> TRUE, auto_stop |-> S.pdca[MinOf(m)].auto_stop]
        r == MaybeAutoStop(agent_id, S.agents[agent_id], S.audits, pd, current, reason, source)
    IN [S EXCEPT !.agents[agent_id] = r.agent,
                 !.audits = r.audits,
                 !.pdca = IF m = {} THEN @ ELSE [@ EXCEPT ![MinOf(m)].auto_stop = r.pdca.auto_stop]]

\* the failure branch shared by the OAuth pre-flight and the generic
\* `except Exception`: PDCA error, failed audit, flush, streak check, auto-stop
RecordFailure(S, p, current, source, event_type, reason, stop_reason) ==
    LET a == S.posts[p].agent
        S1 == [S EXCEPT !.pdca = AppendPdcaError(@, a, DateOf(current))]
        S2 == Audit(S1, a, DateOf(current), source, event_type, "failed", reason)
        S3 == Flush(S2)
    IN IF S3.raised THEN S3
       ELSE IF RecentConsecutiveFailures(S3.audits, a, source, event_type) >= 3
            THEN SessionAutoStop(S3, a, current, stop_reason, source)
            ELSE S3

\* the OAuth pre-flight of one claimed post (USE_REAL_X=1, no poster injected):
\* tokens is the set of agents token_for_agent returns a token for
PreflightPost(S, p, current, tokens) ==
    LET post == S.posts[p]
        a == post.agent
        agent == S.agents[a]
    IN IF S.raised \/ post.posted_at # NoTime THEN S
       ELSE IF ~IsAgentRunnable(agent, UtcDt(current))
            THEN Result(Audit(S, a, DateOf(current), "posting_jobs", "posting", "skipped", SkipReason(agent)),
                        p, "skipped", SkipReason(agent))
       ELSE IF a \in tokens THEN S
       ELSE LET F == RecordFailure(S, p, current, "oauth", "refresh", "x_auth_refresh_failed",
                                   "auto_anomaly_oauth_refresh_failures")
            IN IF F.raised THEN F ELSE Result(F, p, "skipped", "x_auth_refresh_failed")

RECURSIVE Preflight(_, _, _, _)
Preflight(S, batch, current, tokens) ==
    IF batch = <<>> THEN S
    ELSE Preflight(PreflightPost(S, Head(batch), current, tokens), Tail(batch), current, tokens)

\* an EngagementAction row: the agent, the action type and the tick it was executed at
EngagementAction(agent_id, action_type, executed_at) ==
    [agent |-> agent_id, action_type |-> action_type, executed_at |-> executed_at]

ActionType == {"like", "reply", "quote_rt"}

\* RateLimiter._count_total
CountTotal(engaged, agent_id, d) ==
    Cardinality({i \in DOMAIN engaged : engaged[i].agent = agent_id /\ DateOf(engaged[i].executed_at) = d})

\* RateLimiter._count_by_type
CountByType(engaged, agent_id, d, action_type) ==
    Cardinality({i \in DOMAIN engaged : /\ engaged[i].agent = agent_id
                                         /\ engaged[i].action_type = action_type
                                         /\ DateOf(engaged[i].executed_at) = d})

\* a limiter that caps each action type on its own
IsRateLimited_PerType(engaged, agent_id, d, action_type, requested, daily_total_limit) ==
    CountByType(engaged, agent_id, d, action_type) + requested > daily_total_limit

\* RateLimiter.is_limited on the EngagementAction rows of (agent, date)
IsRateLimited(engaged, agent_id, d, action_type, requested, daily_total_limit) ==
    CountTotal(engaged, agent_id, d) + requested > daily_total_limit

ReplyQuoteDailyMax == 3
PostXCost == 100

\* the skip branches of the main loop that record a PDCA error first
SkipWithError(S, p, current, reason) ==
    LET a == S.posts[p].agent
        S1 == [S EXCEPT !.pdca = AppendPdcaError(@, a, DateOf(current))]
    IN Result(Audit(S1, a, DateOf(current), "posting_jobs", "posting", "skipped", reason), p, "skipped", reason)

\* `except BudgetExceededError`: PDCA error, failed audit, no streak check
BudgetFailure(S, p, current) ==
    LET a == S.posts[p].agent
        S1 == [S EXCEPT !.pdca = AppendPdcaError(@, a, DateOf(current))]
    IN Result(Audit(S1, a, DateOf(current), "posting_jobs", "posting", "failed", "budget_exceeded"),
              p, "failed", "BudgetExceededError")

\* `except Exception`
GenericFailure(S, p, current, exc) ==
    LET F == RecordFailure(S, p, current, "posting_jobs", "posting", exc, "auto_anomaly_posting_failures")
    IN IF F.raised THEN F ELSE Result(F, p, "failed", exc)

\* a publication that is marked and audited while the reserved amount is dropped
MarkPosted_NoCommit(S, p, current, ledger) ==
    LET a == S.posts[p].agent
        n == S.calls[p] + 1
        S1 == [S EXCEPT !.calls[p] = n,
                        !.posts[p].external_id = <<p, n>>,
                        !.posts[p].posted_at = current]
        S2 == Flush(S1)
    IN IF S2.raised THEN S2
       ELSE Result(Audit(S2, a, DateOf(current), "posting_jobs", "posting", "success", NULL),
                   p, "posted", NULL)

\* lines 402-415: the platform accepted the post; mark it, commit the ledger, flush, audit
MarkPosted(S, p, current, ledger) ==
    LET a == S.posts[p].agent
        n == S.calls[p] + 1
        S1 == [S EXCEPT !.calls[p] = n,
                        !.posts[p].external_id = <<p, n>>,
                        !.posts[p].posted_at = current]
        c == LedgerCommit(S1.cost, ledger)
        S2 == Flush([S1 EXCEPT !.cost = c.cost])
    IN IF S2.raised THEN S2
       ELSE Result(Audit(S2, a, DateOf(current), "posting_jobs", "posting", "success", NULL),
                   p, "posted", NULL)

\* the body of the main loop for one claimed post; accepted is the set of
\* posts the poster publishes without raising
ProcessPost(S, p, current, accepted) ==
    LET post == S.posts[p]
        a == post.agent
        agent == S.agents[a]
        engagement == post.type \in {"reply", "quote_rt"}
        limited == engagement /\ IsRateLimited(S.engaged, a, DateOf(current), post.type, S.attempts + 1, ReplyQuoteDailyMax)
        S0 == IF engagement /\ ~limited THEN [S EXCEPT !.attempts = @ + 1] ELSE S
        content_hash == IF post.content_hash # NoHash THEN post.content_hash
                        ELSE BuildPostContentHash(post.content, post.thread_parts)
        bucket_date == IF post.content_bucket_date # NoDate THEN post.content_bucket_date ELSE DateOf(current)
        S1 == [S0 EXCEPT !.posts[p].content_hash = content_hash, !.posts[p].content_bucket_date = bucket_date]
        duplicate == \E q \in DOMAIN S1.pdb :
                         /\ q # p
                         /\ S1.pdb[q].agent = a
                         /\ S1.pdb[q].content_hash = content_hash
                         /\ S1.pdb[q].content_bucket_date = bucket_date
                         /\ S1.pdb[q].posted_at # NoTime
        ledger == NewLedger(a, DateOf(current), agent.daily_budget, agent.budget_split_x, agent.budget_split_llm)
    IN IF S.raised \/ post.posted_at # NoTime THEN S
       ELSE IF \E i \in DOMAIN S.results : S.results[i].post = p /\ S.results[i].status = "skipped" THEN S
       ELSE IF ~IsAgentRunnable(agent, UtcDt(current))
            THEN Result(Audit(S, a, DateOf(current), "posting_jobs", "posting", "skipped", SkipReason(agent)),
                        p, "skipped", SkipReason(agent))
       ELSE IF limited THEN SkipWithError(S, p, current, "rate_limited")
       ELSE IF duplicate
            THEN Result(Audit(S1, a, DateOf(current), "posting_jobs", "posting", "skipped", "duplicate_content"),
                        p, "skipped", "duplicate_content")
       ELSE IF ~ReserveOk(S1.cost, ledger, PostXCost, 0) THEN BudgetFailure(S1, p, current)
       ELSE IF engagement /\ post.target = "none" THEN GenericFailure(S1, p, current, "ValueError")
       ELSE IF engagement /\ post.target = "bad" THEN SkipWithError(S1, p, current, "invalid_target_url")
       ELSE IF p \notin accepted
            THEN GenericFailure([S1 EXCEPT !.refused = Append(@, p)], p, current, "RuntimeError")
       ELSE MarkPosted(S1, p, current, Reserve(S1.cost, ledger, PostXCost, 0))

RECURSIVE ProcessBatch(_, _, _, _)
ProcessBatch(S, batch, current, accepted) ==
    IF batch = <<>> THEN S
    ELSE CHOOSE R \in {ProcessBatch(S1, Tail(batch), current, accepted) :
                           S1 \in {ProcessPost(S, Head(batch), current, accepted)}} : TRUE

\* reconcile_app_usage and the usage/reconcile audit row written for
\* audit_agent: usage is "off" (the call is not made), "disabled"
\* (USE_X_USAGE unset), "ok" or "failed" (the usage fetch raises); "ok" gets
\* or creates the app-level CostLog row of agent 0
ReconcileUsage(S, audit_agent, d, usage) ==
    IF S.raised \/ usage = "off" THEN S
    ELSE IF usage = "disabled" THEN Audit(S, audit_agent, d, "usage", "reconcile", "skipped", "usage_disabled")
    ELSE IF usage = "failed" THEN Audit(S, audit_agent, d, "usage", "reconcile", "failed", "XUsageError")
    ELSE LET S1 == IF CostMatch(S.cost, 0, d) = {}
                   THEN [S EXCEPT !.cost = Append(@, CostRow(0, d, ZeroAmt, FALSE))]
                   ELSE S
         IN Audit(S1, audit_agent, d, "usage", "reconcile", "success", NULL)

\* run_posting_jobs over the batch it claimed: the session at session.commit()
PostingSession(st, calls, batch, current, real, tokens, accepted, usage) ==
    LET S0 == OpenSession(st, calls)
        S1 == IF real THEN Preflight(S0, batch, current, tokens) ELSE S0
        S2 == ProcessBatch(S1, batch, current, accepted)
    IN ReconcileUsage(S2, 0, DateOf(current), usage)
----------------------------------------------------------------------------
(* Daily routine: run_daily_routine *)

DailyXCost == 100
DailyLlmCost == 200
DailyRateLimit == 3
TargetFetchCost == 25
XSearchCost == 100
WebSearchCost == 100
WebFetchCost == 30
WebSummarizeCost == 100
PlanCost == 50

\* an ExternalPost the platform lists: its id, text and creation time
ExternalPost(external_id, text, type, posted_at) ==
    [external_id |-> external_id, text |-> text, type |-> type, posted_at |-> posted_at]

\* an upsert that takes the publication time of a row it already holds to be unknown
UpsertPost_ResetPostedAt(S, agent_id, external_post) ==
    LET m == {i \in DOMAIN S.pdb : S.pdb[i].agent = agent_id /\ S.pdb[i].external_id = external_post.external_id}
    IN IF m # {}
       THEN [S EXCEPT !.posts[MinOf(m)].content = external_post.text,
                      !.posts[MinOf(m)].posted_at = NoTime,
                      !.posts[MinOf(m)].type = external_post.type]
       ELSE Flush([S EXCEPT !.posts = Append(@, [NewPost(agent_id, external_post.text, <<>>, external_post.type, "none",
                                                          NoTime, NoHash, NoDate)
                                                   EXCEPT !.external_id = external_post.external_id,
                                                          !.posted_at = external_post.posted_at]),
                            !.calls = Append(@, 0)])

\* _upsert_post: a row found by (agent_id, external_id) takes the platform's
\* text, time and type; otherwise a row is added and flushed
UpsertPost(S, agent_id, external_post) ==
    LET m == {i \in DOMAIN S.pdb : S.pdb[i].agent = agent_id /\ S.pdb[i].external_id = external_post.external_id}
    IN IF m # {}
       THEN [S EXCEPT !.posts[MinOf(m)].content = external_post.text,
                      !.posts[MinOf(m)].posted_at = external_post.posted_at,
                      !.posts[MinOf(m)].type = external_post.type]
       ELSE Flush([S EXCEPT !.posts = Append(@, [NewPost(agent_id, external_post.text, <<>>, external_post.type, "none",
                                                          NoTime, NoHash, NoDate)
                                                   EXCEPT !.external_id = external_post.external_id,
                                                          !.posted_at = external_post.posted_at]),
                            !.calls = Append(@, 0)])

\* the id of the Post row _upsert_post returned
UpsertedId(S, agent_id, external_post) ==
    MinOf({i \in DOMAIN S.posts : S.posts[i].agent = agent_id /\ S.posts[i].external_id = external_post.external_id})

\* a save that adds a confirmed row without looking for one
SaveConfirmedMetrics_Always(S, p) == [S EXCEPT !.metrics = Append(@, MetricsRow(p, FALSE))]

\* _save_confirmed_metrics: nothing is added when the database holds a confirmed row of the post
SaveConfirmedMetrics(S, p) ==
    IF \E i \in DOMAIN S.metrics : S.metrics[i].inDb /\ S.metrics[i].post = p THEN S
    ELSE [S EXCEPT !.metrics = Append(@, MetricsRow(p, FALSE))]

\* the ingest loop over the external posts, in the order the platform lists them
RECURSIVE Ingest(_, _, _)
Ingest(S, agent_id, externals) ==
    IF externals = <<>> \/ S.raised THEN S
    ELSE LET U == UpsertPost(S, agent_id, Head(externals))
         IN IF U.raised THEN U
            ELSE Ingest(SaveConfirmedMetrics(U, UpsertedId(U, agent_id, Head(externals))), agent_id, Tail(externals))

\* a skip branch that books the nominal cost of the run it skips
EnsurePdca_Charging(S, agent_id, d, analysis, reason) ==
    [S EXCEPT !.pdca = IF PdcaMatch(S.pdca, agent_id, d) = {} THEN Append(@, SkipPdca(agent_id, d, analysis, reason)) ELSE @,
              !.cost = Append(@, CostRow(agent_id, d, [x |-> 100, xe |-> 100, llm |-> 200, total |-> 300], FALSE))]

\* the DailyPDCA get-or-create of the skip branches: an existing row is left as it is
EnsurePdca(S, agent_id, d, analysis, reason) ==
    IF PdcaMatch(S.pdca, agent_id, d) = {}
    THEN [S EXCEPT !.pdca = Append(@, SkipPdca(agent_id, d, analysis, reason))]
    ELSE S

\* the DailyPDCA upsert of the missing_user_id branch and of the main path:
\* an existing row gets a fresh analytics_summary and, in the missing_user_id
\* branch, a fresh analysis
UpsertPdca(S, agent_id, d, analysis, reason, keep_analysis) ==
    LET m == PdcaMatch(S.pdca, agent_id, d)
    IN IF m = {}
       THEN [S EXCEPT !.pdca = Append(@, SkipPdca(agent_id, d, analysis, reason))]
       ELSE [S EXCEPT !.pdca[MinOf(m)].errors = 0,
                      !.pdca[MinOf(m)].error = NULL,
                      !.pdca[MinOf(m)].auto_stop = <<>>,
                      !.pdca[MinOf(m)].summary = reason,
                      !.pdca[MinOf(m)].analysis = IF keep_analysis THEN @ ELSE analysis,
                      !.pdca[MinOf(m)].reason = IF keep_analysis THEN @ ELSE reason]

\* what a handler call hands back: the session to commit and the returned status
Outcome(S, status, reason) == [S |-> S, status |-> status, reason |-> reason]

\* _scheduled_datetime_for_plan: POST_HOUR of the day after target_date
ScheduledDatetimeForPlan(target_date) == (target_date + 1) * DayLen

\* the loop of _create_next_day_posts over the drafts of the planner
RECURSIVE CreatePosts(_, _, _, _)
CreatePosts(S, agent_id, target_date, drafts) ==
    IF drafts = <<>> \/ S.raised THEN S
    ELSE LET draft == Head(drafts)
             content_hash == BuildPostContentHash(draft.text, draft.thread_parts)
             bucket_date == DateOf(ScheduledDatetimeForPlan(target_date))
             duplicate == \E q \in DOMAIN S.pdb : /\ S.pdb[q].agent = agent_id
                                                  /\ S.pdb[q].content_hash = content_hash
                                                  /\ S.pdb[q].content_bucket_date = bucket_date
             post == NewPost(agent_id, draft.text, draft.thread_parts, draft.type, draft.target,
                             ScheduledDatetimeForPlan(target_date), content_hash, bucket_date)
         IN IF duplicate THEN CreatePosts(S, agent_id, target_date, Tail(drafts))
            ELSE CreatePosts(Flush([S EXCEPT !.posts = Append(@, post),
                                             !.calls = Append(@, 0)]),
                             agent_id, target_date, Tail(drafts))

\* _collect_target_post_candidates as far as the ledger goes: one guarded
\* reservation when the agent has target accounts
CollectTargets(cost, ledger, has_targets) ==
    IF has_targets THEN Reserve(cost, ledger, TargetFetchCost, 0) ELSE ledger

\* _run_daily_research for its one query: x_search and web are "limited"
\* (SearchLimiter), "ok" or "failed" (the search client raises); a web search
\* that succeeds commits the ledger.  recorded tells whether a web record exists.
DailyResearch(cost, ledger, x_search, web) ==
    LET L1 == IF x_search = "limited" THEN ledger ELSE Reserve(cost, ledger, XSearchCost, 0)
        web_reserved == web # "limited" /\ ReserveOk(cost, L1, 0, WebSearchCost)
        L2 == IF web_reserved THEN Reserve(cost, L1, 0, WebSearchCost) ELSE L1
        c == LedgerCommit(cost, L2)
    IN IF web_reserved /\ web = "ok"
       THEN [cost |-> c.cost, ledger |-> c.ledger, recorded |-> TRUE]
       ELSE [cost |-> cost, ledger |-> L2, recorded |-> FALSE]

\* _run_fetch_and_summary as far as the ledger goes: fetch is "none" (nothing
\* to fetch or FetchLimiter), "fetch" or "summarize"
FetchAndSummary(cost, ledger, recorded, fetch) ==
    IF ~recorded \/ fetch = "none" \/ ~ReserveOk(cost, ledger, 0, WebFetchCost) THEN ledger
    ELSE LET L1 == Reserve(cost, ledger, 0, WebFetchCost)
         IN IF fetch = "summarize" THEN Reserve(cost, L1, 0, WebSummarizeCost) ELSE L1

\* the posts of the agent scheduled on day d and not published, as _create_next_day_posts counts them
ScheduledOn(pdb, agent_id, d) ==
    {i \in DOMAIN pdb : /\ pdb[i].agent = agent_id
                        /\ pdb[i].scheduled_at # NoTime
                        /\ DateOf(pdb[i].scheduled_at) = d
                        /\ pdb[i].posted_at = NoTime}

\* run_daily_routine after its gates: ingest, PDCA, harvest, research, fetch,
\* planning, ledger commit, usage reconcile.  A planner that cannot reserve
\* raises BudgetExceededError out of the routine.
DailyBody(S0, ledger0, agent_id, target_date, in, posts_per_day, usage) ==
    LET S1 == Ingest(S0, agent_id, in.externals)
        S2 == UpsertPdca(S1, agent_id, target_date, "completed", NULL, TRUE)
        L1 == CollectTargets(S2.cost, ledger0, in.has_targets)
        R == DailyResearch(S2.cost, L1, in.x_search, in.web)
        L2 == FetchAndSummary(R.cost, R.ledger, R.recorded, in.fetch)
        S3 == [S2 EXCEPT !.cost = R.cost]
        missing == Max(0, posts_per_day - Cardinality(ScheduledOn(S3.pdb, agent_id, DateOf(ScheduledDatetimeForPlan(target_date)))))
        plan_ok == ReserveOk(S3.cost, L2, 0, PlanCost)
        L3 == IF missing > 0 THEN Reserve(S3.cost, L2, 0, PlanCost) ELSE L2
        S4 == IF missing > 0 THEN CreatePosts(S3, agent_id, target_date, Take(in.drafts, missing)) ELSE S3
        S5 == [S4 EXCEPT !.cost = LedgerCommit(S4.cost, L3).cost]
    IN IF S1.raised THEN Outcome(S1, "raised", "IntegrityError")
       ELSE IF missing > 0 /\ ~plan_ok THEN Outcome([S3 EXCEPT !.raised = TRUE], "raised", "BudgetExceededError")
       ELSE IF S4.raised THEN Outcome(S4, "raised", "IntegrityError")
       ELSE Outcome(ReconcileUsage(S5, agent_id, target_date, usage), "success", NULL)

\* a routine that makes the pre-flight reservation before it asks the rate limiter
DailyRoutine_BudgetFirst(st, calls, agent_id, target_date, now, in, posts_per_day, usage) ==
    LET S0 == OpenSession(st, calls)
        agent == S0.agents[agent_id]
        ledger == NewLedger(agent_id, target_date, agent.daily_budget, agent.budget_split_x, agent.budget_split_llm)
    IN IF ~IsAgentRunnable(agent, UtcDt(now))
       THEN Outcome(Audit(S0, agent_id, target_date, "daily_routine", "execution_skip", "skipped", SkipReason(agent)),
                    "skip", SkipReason(agent))
       ELSE IF ~ReserveOk(S0.cost, ledger, DailyXCost, DailyLlmCost)
       THEN Outcome(EnsurePdca(S0, agent_id, target_date, "skipped", "budget_exceeded"), "skip", "budget_exceeded")
       ELSE IF IsRateLimited(S0.engaged, agent_id, target_date, "reply", 1, DailyRateLimit)
       THEN Outcome(EnsurePdca(S0, agent_id, target_date, "skipped", "rate_limited"), "skip", "rate_limited")
       ELSE IF in.missing_user_id
       THEN Outcome(UpsertPdca(S0, agent_id, target_date, "skipped", "missing_user_id", FALSE), "skip", "missing_user_id")
       ELSE DailyBody(S0, Reserve(S0.cost, ledger, DailyXCost, DailyLlmCost), agent_id, target_date,
                      in, posts_per_day, usage)

\* run_daily_routine(agent_id, base_date = target_date + 2) at wall-clock now
DailyRoutine(st, calls, agent_id, target_date, now, in, posts_per_day, usage) ==
    LET S0 == OpenSession(st, calls)
        agent == S0.agents[agent_id]
        ledger == NewLedger(agent_id, target_date, agent.daily_budget, agent.budget_split_x, agent.budget_split_llm)
    IN IF ~IsAgentRunnable(agent, UtcDt(now))
       THEN Outcome(Audit(S0, agent_id, target_date, "daily_routine", "execution_skip", "skipped", SkipReason(agent)),
                    "skip", SkipReason(agent))
       ELSE IF IsRateLimited(S0.engaged, agent_id, target_date, "reply", 1, DailyRateLimit)
       THEN Outcome(EnsurePdca(S0, agent_id, target_date, "skipped", "rate_limited"), "skip", "rate_limited")
       ELSE IF ~ReserveOk(S0.cost, ledger, DailyXCost, DailyLlmCost)
       THEN Outcome(EnsurePdca(S0, agent_id, target_date, "skipped", "budget_exceeded"), "skip", "budget_exceeded")
       ELSE IF in.missing_user_id
       THEN Outcome(UpsertPdca(S0, agent_id, target_date, "skipped", "missing_user_id", FALSE), "skip", "missing_user_id")
       ELSE DailyBody(S0, Reserve(S0.cost, ledger, DailyXCost, DailyLlmCost), agent_id, target_date,
                      in, posts_per_day, usage)
----------------------------------------------------------------------------
(* Worker harness: the posting worker and the daily routine, run one after  *)
(* the other against the store while the clock advances                     *)

TextA == <<"a">>
TextA2 == <<"A", " ">>
TextB == <<"b">>
TextAB == <<"a", " ", " ", "B">>

\* a post the worker published at tick t as its first publication
Published(post, p, t) ==
    [post EXCEPT !.posted_at = t, !.external_id = <<p, 1>>]

Tweet(agent_id, content, scheduled_at) ==
    NewPost(agent_id, content, <<>>, "tweet", "none", scheduled_at, NoHash, NoDate)

Planned(agent_id, content, thread_parts, type, target, scheduled_at, bucket) ==
    NewPost(agent_id, content, thread_parts, type, target, scheduled_at,
            BuildPostContentHash(content, thread_parts), bucket)

Active(budget) == AgentRow("active", NullDt, budget, budget, budget)
Halted(status) == AgentRow(status, NullDt, 10, 10, 10)

\* rows that predate the dedupe columns: two of agent 1 with the same normalized text
LegacyPosts == <<Tweet(1, TextA, 0), Tweet(1, TextA2, 0), Tweet(2, TextB, 0)>>

\* a published post, an older row with its text, and another post behind it
DayOldPosts ==
    <<Published(Planned(1, TextA, <<>>, "tweet", "none", 0, 0), 1, 0), Tweet(1, TextA2, 0), Tweet(1, TextB, 1)>>

\* three planned posts of one agent, a thread among them
PlannedPosts ==
    <<Planned(1, TextA, <<>>, "tweet", "none", 0, 0), Planned(1, TextB, <<>>, "tweet", "none", 0, 0),
      Planned(1, TextA, <<TextA, TextB>>, "thread", "none", 0, 0)>>

\* posts of two agents with the same text, and an older row whose text
\* normalizes like the first one
SharedPosts ==
    <<Planned(1, TextAB, <<>>, "tweet", "none", 0, 0), Planned(2, TextA, <<>>, "tweet", "none", 0, 0),
      NewPost(1, TextA, <<TextA, TextB>>, "thread", "none", 1, NoHash, NoDate)>>

\* replies and quotes
EngagementPosts ==
    <<Planned(1, TextA, <<>>, "reply", "ok", 0, 0), Planned(1, TextB, <<>>, "quote_rt", "bad", 0, 0),
      Planned(1, TextAB, <<>>, "reply", "ok", 0, 0)>>

\* a post scheduled after a later row, and between them a post without schedule
UnscheduledPosts == <<Tweet(1, TextB, 1), Tweet(1, TextA, NoTime), Tweet(2, TextA, 0)>>

\* two rows that predate the dedupe columns and, scheduled ahead of them, a
\* reply whose target is no status URL
MixedPosts ==
    <<Tweet(1, TextA, 1), Tweet(1, TextA2, 1), Planned(1, TextB, <<>>, "reply", "bad", 0, 0)>>

\* a reply and a quote of one agent, both with a status url as target
AnswerPosts ==
    <<Planned(1, TextA, <<>>, "reply", "ok", 0, 0), Planned(1, TextB, <<>>, "quote_rt", "ok", 0, 0)>>

NoEngagement == <<>>
TwoReplies == <<EngagementAction(1, "reply", 0), EngagementAction(1, "reply", 1)>>

\* two replies of agent 1 and three actions of agent 2, one of each type, all on day 0
MixedActions ==
    TwoReplies \o <<EngagementAction(2, "like", 0), EngagementAction(2, "reply", 0), EngagementAction(2, "quote_rt", 1)>>

\* an environment variable that is read as an integer: the text is an
\* integer literal, or it is not (value is then of no account)
EnvInt(n) == [valid |-> TRUE, value |-> n]
EnvText == [valid |-> FALSE, value |-> 0]

\* the process environment: POSTING_BATCH_SIZE, real-platform mode, the usage
\* switches ("off": POSTING_USAGE_RECONCILE and USE_X_USAGE unset, "disabled":
\* USE_X_USAGE unset, "on": both set) and POSTS_PER_DAY
Env(batch_size, real, usage, posts_per_day) ==
    [batch_size |-> batch_size, real |-> real, usage |-> usage, posts_per_day |-> posts_per_day]

Setup(migrated, ps, a1, a2, e, environment) ==
    [store |-> [migrated |-> migrated, agents |-> (1 :> a1 @@ 2 :> a2), posts |-> ps, cost |-> <<>>,
                audits |-> <<>>, pdca |-> <<>>, metrics |-> <<>>, engaged |-> e],
     env |-> environment]

\* the databases and process environments the harness starts from
InitSetups ==
    { Setup(TRUE, LegacyPosts, Active(10), Active(10), NoEngagement, Env(EnvInt(10), FALSE, "off", 1)),
      Setup(TRUE, LegacyPosts, Active(10), Halted("disabled"), NoEngagement, Env(EnvInt(10), FALSE, "off", 2)),
      Setup(FALSE, LegacyPosts, Halted("paused"), Active(10), NoEngagement, Env(EnvText, TRUE, "off", 1)),
      Setup(TRUE, LegacyPosts, Halted("stopped"), Active(10), NoEngagement, Env(EnvInt(10), FALSE, "on", 1)),
      Setup(TRUE, LegacyPosts, AgentRow("active", Dt(1, NAIVE), 10, 10, 10), Active(10), NoEngagement,
            Env(EnvInt(1), FALSE, "off", 1)),
      Setup(TRUE, DayOldPosts, Active(10), Active(10), NoEngagement, Env(EnvInt(10), FALSE, "off", 1)),
      Setup(FALSE, DayOldPosts, Active(10), Active(10), NoEngagement, Env(EnvInt(2), TRUE, "off", 2)),
      Setup(TRUE, PlannedPosts, Active(10), Active(10), NoEngagement, Env(EnvInt(10), TRUE, "off", 1)),
      Setup(TRUE, PlannedPosts, Active(1), Active(3), NoEngagement, Env(EnvInt(10), FALSE, "disabled", 1)),
      Setup(TRUE, SharedPosts, Active(10), Halted("stopped"), NoEngagement, Env(EnvInt(10), TRUE, "off", 1)),
      Setup(TRUE, EngagementPosts, Active(10), Active(2), MixedActions, Env(EnvInt(10), FALSE, "off", 1)),
      Setup(FALSE, EngagementPosts, Active(10), Active(10), NoEngagement, Env(EnvInt(10), FALSE, "off", 0)),
      Setup(TRUE, MixedPosts, Active(10), Active(6), NoEngagement, Env(EnvInt(10), FALSE, "off", 1)),
      Setup(TRUE, UnscheduledPosts, Active(10), Active(10), NoEngagement, Env(EnvInt(0), FALSE, "off", 1)) }

\* a post that is due and two of the same agent that come due one tick later
LaterPosts ==
    <<Planned(1, TextA, <<>>, "tweet", "none", 0, 0), Planned(1, TextB, <<>>, "tweet", "none", 1, 0),
      Planned(1, TextA, <<TextA, TextB>>, "thread", "none", 1, 0)>>

\* the database s after earlier worker runs that left the audit rows and the
\* flushed DailyPDCA rows given
WithHistory(s, audits, pdca) == [s EXCEPT !.store.audits = audits, !.store.pdca = pdca]

\* what one failed token refresh for a post of agent 1 on day 0 leaves behind
RefreshFailedOnce ==
    WithHistory(Setup(TRUE, LaterPosts, Active(10), Active(10), NoEngagement, Env(EnvInt(10), TRUE, "off", 1)),
                <<AuditRow(1, 0, "oauth", "refresh", "failed", "x_auth_refresh_failed")>>,
                <<PdcaRow(1, 0, "posting_failed", TRUE)>>)

\* a reply of agent 2 due ahead of a reply of agent 1
CrossPosts ==
    <<Planned(2, TextA, <<>>, "reply", "ok", 0, 0), Planned(1, TextB, <<>>, "reply", "ok", 0, 0)>>

\* databases for the posting worker alone: two answers due with two
\* engagement actions behind them, and one with a failed refresh behind it
PostingSetups ==
    { Setup(TRUE, AnswerPosts, Active(10), Active(10), TwoReplies, Env(EnvInt(10), FALSE, "off", 1)),
      Setup(TRUE, CrossPosts, Active(10), Active(10), TwoReplies, Env(EnvInt(10), FALSE, "off", 1)),
      RefreshFailedOnce }

PInit ==
    /\ \E s \in InitSetups \cup PostingSetups : store = s.store /\ env = s.env
    /\ clock = 0
    /\ runs = 0
    /\ workers = IdleWorkers
    /\ plat = [p \in DOMAIN store.posts |-> IF store.posts[p].posted_at # NoTime THEN 1 ELSE 0]
    /\ ret = IdleOut
    /\ lsess = [cost |-> <<>>, ledger |-> NewLedger(1, 0, 0, 0, 0)] /\ lout = IdleOut
    /\ gagent = IdleAgent /\ gaudit = <<>> /\ gpdca = NoPdca /\ gnow = 0 /\ gout = IdleOut /\ oauth = IdleOAuth /\ plan = IdlePlan /\ fetches = IdleFetches /\ tasks = IdleTasks

PTick ==
    /\ clock < MaxClock
    /\ clock' = clock + 1
    /\ ret' = [op |-> "tick"]
    /\ UNCHANGED <<store, env, runs, workers, plat, lvars, gvars, ovars>>

\* run_posting_jobs(base_datetime = clock, poster): tokens are the agents
\* token_for_agent succeeds for, accepted the posts the poster publishes,
\* usage_ok whether the usage fetch of the reconcile tail succeeds
PRunPostingJobs ==
    \E tokens \in SUBSET Agents, accepted \in SUBSET DOMAIN store.posts, usage_ok \in BOOLEAN :
        LET batch == ClaimDuePosts(store.posts, clock, PostingBatchSize(env.batch_size), {})
            usage == IF env.usage = "on" THEN (IF usage_ok THEN "ok" ELSE "failed") ELSE env.usage
        IN /\ runs < MaxRuns
           /\ runs' = runs + 1
           /\ ~env.real => tokens = Agents
           /\ env.usage # "on" => usage_ok
           /\ accepted \subseteq Range(batch)
           /\ \E S \in {PostingSession(store, plat, batch, clock, env.real, tokens, accepted, usage)} :
                 /\ store' = Commit(store, S)
                 /\ plat' = S.calls
                 /\ ret' = [op |-> "posting", raised |-> Flush(S).raised, tokens |-> tokens, refused |-> S.refused,
                            batch |-> batch, results |-> IF Flush(S).raised THEN <<>> ELSE S.results]
           /\ UNCHANGED <<env, clock, workers, lvars, gvars, ovars>>

\* the target dates the daily routine is run for
DailyDates == {0}

\* PostDraft
Draft(type, text, thread_parts, target) == [type |-> type, text |-> text, thread_parts |-> thread_parts, target |-> target]

\* what the platform lists for a day: posts the database has never seen
ForeignPosts(target_date) ==
    <<ExternalPost(<<0, 1>>, TextA, "tweet", target_date * DayLen),
      ExternalPost(<<0, 2>>, TextB, "thread", target_date * DayLen + 1)>>

\* what the platform lists for a day: the posts the worker published that day, as it published them
RECURSIVE OwnPosts(_, _, _, _)
OwnPosts(posts, agent_id, target_date, p) ==
    IF p > Len(posts) THEN <<>>
    ELSE IF /\ posts[p].agent = agent_id /\ posts[p].external_id # NoExt /\ posts[p].posted_at # NoTime
            /\ DateOf(posts[p].posted_at) = target_date
         THEN <<ExternalPost(posts[p].external_id, posts[p].content, "tweet", posts[p].posted_at)>>
              \o OwnPosts(posts, agent_id, target_date, p + 1)
         ELSE OwnPosts(posts, agent_id, target_date, p + 1)

\* what the clients of one run hand back: listing is "none", "foreign", "own"
\* or "missing" (MissingXUserIdError)
DailyInput(listing, has_targets, x_search, web, fetch, drafts) ==
    [listing |-> listing, has_targets |-> has_targets, x_search |-> x_search, web |-> web,
     fetch |-> fetch, drafts |-> drafts]

DailyInputs ==
    { DailyInput("none", FALSE, "ok", "ok", "none", <<Draft("tweet", TextA, <<>>, "none"), Draft("tweet", TextB, <<>>, "none")>>),
      DailyInput("foreign", TRUE, "ok", "ok", "summarize", <<Draft("tweet", TextAB, <<>>, "none"), Draft("thread", TextA, <<TextA, TextB>>, "none")>>),
      DailyInput("own", FALSE, "limited", "failed", "none", <<Draft("tweet", TextA2, <<>>, "none"), Draft("reply", TextB, <<>>, "ok")>>),
      DailyInput("missing", FALSE, "ok", "ok", "none", <<>>) }

\* run_daily_routine(agent_id, base_date) with target_date = base_date - 2 days
DailyCall(agent_id, target_date, in, usage_ok, limit) ==
    LET usage == IF env.usage = "on" THEN (IF usage_ok THEN "ok" ELSE "failed") ELSE "disabled"
        externals == IF in.listing = "foreign" THEN ForeignPosts(target_date)
                     ELSE IF in.listing = "own" THEN OwnPosts(store.posts, agent_id, target_date, 1)
                     ELSE <<>>
        input == [externals |-> externals, missing_user_id |-> in.listing = "missing",
                  has_targets |-> in.has_targets, x_search |-> in.x_search, web |-> in.web,
                  fetch |-> in.fetch, drafts |-> in.drafts]
    IN /\ runs < limit
       /\ runs' = runs + 1
       /\ env.usage # "on" => usage_ok
       /\ \E O \in {DailyRoutine(store, plat, agent_id, target_date, clock, input, env.posts_per_day, usage)} :
             LET done == ~O.S.raised /\ ~Flush(O.S).raised
             IN /\ store' = Commit(store, O.S)
                /\ plat' = IF done THEN O.S.calls ELSE plat
                /\ ret' = [op |-> "daily", raised |-> ~done, agent |-> agent_id, target_date |-> target_date,
                           listing |-> in.listing,
                           externals |-> [k \in DOMAIN externals |-> externals[k].external_id],
                           created |-> IF done THEN Len(O.S.metrics) - Len(store.metrics) ELSE 0,
                           status |-> IF done THEN O.status ELSE "raised",
                           reason |-> IF done \/ O.S.raised THEN O.reason ELSE "IntegrityError"]
       /\ UNCHANGED <<env, clock, workers, lvars, gvars, ovars>>

PRunDailyRoutine ==
    \E agent_id \in Agents, target_date \in DailyDates, in \in DailyInputs, usage_ok \in BOOLEAN :
        DailyCall(agent_id, target_date, in, usage_ok, MaxRuns)

PNext == PTick \/ PRunPostingJobs \/ PRunDailyRoutine

----------------------------------------------------------------------------
(* Scheduler: run_all_agents *)

\* a set of ids in ascending order
RECURSIVE Ascending(_)
Ascending(ids) == IF ids = {} THEN <<>> ELSE <<MinOf(ids)>> \o Ascending(ids \ {MinOf(ids)})

\* a fan-out over every agent, whatever its status
ActiveAgentIds_All(agents) == Ascending(DOMAIN agents)

\* select(Agent.id).where(Agent.status == active).order_by(Agent.id.asc())
ActiveAgentIds(agents) == Ascending({a \in DOMAIN agents : agents[a].status = "active"})

\* _record_pdca_error: a session of its own, committed
RecordPdcaError(st, agent_id, d, exc) ==
    LET m == {i \in DOMAIN st.pdca : st.pdca[i].agent = agent_id /\ st.pdca[i].date = d}
    IN IF m = {}
       THEN [st EXCEPT !.pdca = Append(@, [PdcaRow(agent_id, d, "failed", TRUE) EXCEPT !.error = exc])]
       ELSE [st EXCEPT !.pdca[MinOf(m)].error = exc]

\* what the clients hand to the routine of one agent, given what the store holds when it starts
ClientInput(st, agent_id, target_date, in) ==
    [externals |-> IF in.listing = "foreign" THEN ForeignPosts(target_date)
                   ELSE IF in.listing = "own" THEN OwnPosts(st.posts, agent_id, target_date, 1)
                   ELSE <<>>,
     missing_user_id |-> in.listing = "missing",
     has_targets |-> in.has_targets, x_search |-> in.x_search, web |-> in.web,
     fetch |-> in.fetch, drafts |-> in.drafts]

\* one pass of the loop of run_all_agents: the routine of agent a ended with
\* O; an exception is caught, logged and recorded by _record_pdca_error
AgentOutcome(R, a, O, target_date) ==
    LET done == ~O.S.raised /\ ~Flush(O.S).raised
        exc == IF O.S.raised THEN O.reason ELSE "IntegrityError"
    IN [store |-> IF done THEN Commit(R.store, O.S) ELSE RecordPdcaError(R.store, a, target_date, exc),
        calls |-> IF done THEN O.S.calls ELSE R.calls,
        called |-> Append(R.called, a),
        results |-> Append(R.results, [agent |-> a,
                                       status |-> IF done THEN O.status ELSE "failed",
                                       reason |-> IF done THEN O.reason ELSE exc])]

\* the loop of run_all_agents over the agent ids it selected: R carries the
\* store, the platform's publication counts, the ids the routine was called
\* for and the status payloads
RECURSIVE RunAgents(_, _, _, _, _, _, _)
RunAgents(R, ids, target_date, now, ins, posts_per_day, usage) ==
    IF ids = <<>> THEN R
    ELSE LET a == Head(ids)
         IN CHOOSE out \in
                UNION {{RunAgents(R1, Tail(ids), target_date, now, ins, posts_per_day, usage) :
                          R1 \in {AgentOutcome(R, a, O, target_date)}} :
                       O \in {DailyRoutine(R.store, R.calls, a, target_date, now,
                                           ClientInput(R.store, a, target_date, ins[a]), posts_per_day, usage)}} : TRUE

\* the tail of run_all_agents under USE_X_USAGE=1: reconcile_app_usage in a
\* session of its own; an exception is swallowed
ReconcileTail(st, d, usage) ==
    IF usage = "ok" /\ {i \in DOMAIN st.cost : st.cost[i].agent = 0 /\ st.cost[i].date = d} = {}
    THEN [st EXCEPT !.cost = Append(@, CostRow(0, d, ZeroAmt, TRUE))]
    ELSE st

\* the databases of the worker harness that run in test mode, and two in which
\* the planner of agent 1 cannot reserve, with agent 2 behind it
SchedulerSetups ==
    {s \in InitSetups : ~s.env.real} \cup
    { Setup(TRUE, PlannedPosts, Active(3), Active(10), NoEngagement, Env(EnvInt(10), FALSE, "off", 1)),
      Setup(TRUE, LegacyPosts, Active(3), Halted("paused"), NoEngagement, Env(EnvInt(10), FALSE, "on", 1)) }

SInit ==
    /\ \E s \in SchedulerSetups : store = s.store /\ env = s.env
    /\ clock = 0
    /\ runs = 0
    /\ workers = IdleWorkers
    /\ plat = [p \in DOMAIN store.posts |-> IF store.posts[p].posted_at # NoTime THEN 1 ELSE 0]
    /\ ret = IdleOut
    /\ lsess = [cost |-> <<>>, ledger |-> NewLedger(1, 0, 0, 0, 0)] /\ lout = IdleOut
    /\ gagent = IdleAgent /\ gaudit = <<>> /\ gpdca = NoPdca /\ gnow = 0 /\ gout = IdleOut /\ oauth = IdleOAuth /\ plan = IdlePlan /\ fetches = IdleFetches /\ tasks = IdleTasks

\* run_all_agents(base_date) with target_date = base_date - 2 days: ins are
\* what the clients hand back for each agent (no client is asked for an agent
\* the fan-out leaves out: its entry is held fixed)
PRunAllAgents ==
    \E target_date \in DailyDates, ins \in [Agents -> DailyInputs], usage_ok \in BOOLEAN :
        LET usage == IF env.usage = "on" THEN (IF usage_ok THEN "ok" ELSE "failed") ELSE "disabled"
        IN /\ runs < MaxRuns
           /\ runs' = runs + 1
           /\ env.usage # "on" => usage_ok
           /\ \A a \in Agents \ Range(ActiveAgentIds(store.agents)) : ins[a].listing = "missing"
           /\ \E R \in {RunAgents([store |-> store, calls |-> plat, called |-> <<>>, results |-> <<>>],
                                    ActiveAgentIds(store.agents), target_date, clock, ins, env.posts_per_day, usage)} :
                 /\ store' = ReconcileTail(R.store, target_date, IF env.usage = "on" THEN usage ELSE "off")
                 /\ plat' = R.calls
                 /\ ret' = [op |-> "all_agents", target_date |-> target_date, called |-> R.called,
                            results |-> R.results]
           /\ UNCHANGED <<env, clock, workers, lvars, gvars, ovars>>

SNext == PTick \/ PRunPostingJobs \/ PRunAllAgents
----------------------------------------------------------------------------
(* Concurrent posting workers on PostgreSQL: a worker's transaction holds   *)
(* the row locks of the posts it claimed (FOR UPDATE SKIP LOCKED) from its  *)
(* claim to its commit or rollback                                          *)

Workers == DOMAIN IdleWorkers

\* the rows other transactions hold locked
LockedByOthers(w) ==
    UNION {Range(workers[v].batch) : v \in {u \in Workers : u # w /\ workers[u].pc = "claimed"}}

\* run_posting_jobs up to _claim_due_posts
WClaim(w) ==
    /\ workers[w].pc = "idle"
    /\ runs < MaxRuns
    /\ runs' = runs + 1
    /\ workers' = [workers EXCEPT ![w].pc = "claimed",
                                  ![w].batch = ClaimDuePosts(store.posts, clock, PostingBatchSize(env.batch_size), LockedByOthers(w)),
                                  ![w].current = clock]
    /\ ret' = [op |-> "claim", worker |-> w]
    /\ UNCHANGED <<store, env, clock, plat, lvars, gvars, ovars>>

\* run_posting_jobs from the claim to session.commit()
WFinish(w) ==
    /\ workers[w].pc = "claimed"
    /\ \E tokens \in SUBSET Agents, accepted \in SUBSET Range(workers[w].batch) :
          /\ ~env.real => tokens = Agents
          /\ \E S \in {PostingSession(store, plat, workers[w].batch, workers[w].current, env.real, tokens, accepted,
                                       IF env.usage = "on" THEN "ok" ELSE env.usage)} :
                LET done == ~Flush(S).raised
                    posted == SelectSeq(workers[w].batch,
                                        LAMBDA p : \E i \in DOMAIN S.results :
                                                       S.results[i].post = p /\ S.results[i].status = "posted")
                IN /\ store' = Commit(store, S)
                   /\ plat' = S.calls
                   /\ workers' = [workers EXCEPT ![w].pc = "idle", ![w].batch = <<>>,
                                                 ![w].marked = IF done THEN @ \o posted ELSE @]
                   /\ ret' = [op |-> "finish", worker |-> w, raised |-> ~done]
    /\ UNCHANGED <<env, clock, runs, lvars, gvars, ovars>>

WClaimSome == \E w \in Workers : WClaim(w)
WFinishSome == \E w \in Workers : WFinish(w)

WNext == PTick \/ WClaimSome \/ WFinishSome

----------------------------------------------------------------------------
(* Posting loop: run_posting_jobs is called again and again, as the worker's *)
(* scheduler does, with a poster that publishes whatever it is handed,       *)
(* while the clock advances.                                                 *)
(* The audit rows no query of the worker can reach any more are left out of  *)
(* the state: _recent_consecutive_failures reads the last three rows of an   *)
(* (agent, source, event_type) and nothing older.                            *)

\* the rows of audits from position i on that are among the last three of
\* their (agent, source, event_type)
RECURSIVE LastThree(_, _)
LastThree(audits, i) ==
    IF i > Len(audits) THEN <<>>
    ELSE LET later == {k \in (i + 1)..Len(audits) : /\ audits[k].agent = audits[i].agent
                                                     /\ audits[k].source = audits[i].source
                                                     /\ audits[k].event_type = audits[i].event_type}
         IN (IF Cardinality(later) < 3 THEN <<audits[i]>> ELSE <<>>) \o LastThree(audits, i + 1)

\* a due post of agent 1 ahead of two of agent 2, one of them due a tick later
QueuedPosts ==
    <<Planned(1, TextA, <<>>, "tweet", "none", 0, 0), Planned(2, TextB, <<>>, "tweet", "none", 0, 0),
      Planned(2, TextA, <<>>, "tweet", "none", 1, 0)>>

\* the databases the posting loop starts from: agent 1 stopped or active, POSTING_BATCH_SIZE 1 or 2
LoopSetups ==
    { Setup(TRUE, QueuedPosts, a1, Active(10), NoEngagement, Env(EnvInt(n), FALSE, "off", 1)) :
        a1 \in {Halted("stopped"), Active(10)}, n \in 1..2 }

LoopInit ==
    /\ \E s \in LoopSetups : store = s.store /\ env = s.env
    /\ clock = 0
    /\ runs = 0
    /\ workers = IdleWorkers
    /\ plat = [p \in DOMAIN store.posts |-> 0]
    /\ ret = IdleOut
    /\ lsess = [cost |-> <<>>, ledger |-> NewLedger(1, 0, 0, 0, 0)] /\ lout = IdleOut
    /\ gagent = IdleAgent /\ gaudit = <<>> /\ gpdca = NoPdca /\ gnow = 0 /\ gout = IdleOut
    /\ oauth = IdleOAuth /\ plan = IdlePlan /\ fetches = IdleFetches /\ tasks = IdleTasks

\* run_posting_jobs(base_datetime = clock, poster) with a poster that never raises
LoopRunPostingJobs ==
    \E batch \in {ClaimDuePosts(store.posts, clock, PostingBatchSize(env.batch_size), {})} :
        \E S \in {PostingSession(store, plat, batch, clock, env.real, Agents, Range(batch), env.usage)} :
            \E after \in {Commit(store, S)} :
                /\ store' = [after EXCEPT !.audits = LastThree(@, 1)]
                /\ plat' = S.calls
                /\ ret' = [op |-> "posting", batch |-> batch, results |-> S.results]
                /\ UNCHANGED <<env, clock, runs, workers, lvars, gvars, ovars>>

LoopNext == PTick \/ LoopRunPostingJobs

----------------------------------------------------------------------------
(* Operations: the posting worker and the daily routine run against the      *)
(* store while the clock advances and the dashboard stops and resumes agents *)

\* a due tweet of each agent
OpsPosts ==
    <<Planned(1, TextA, <<>>, "tweet", "none", 0, 0), Planned(2, TextB, <<>>, "tweet", "none", 0, 0)>>

\* the store after the posting worker has stopped agent 1 over three failed
\* attempts of the given kind on day 0
AutoStopped(real, source, event_type, reason, stop_reason) ==
    LET s == Setup(TRUE, OpsPosts, [Active(10) EXCEPT !.status = "stopped", !.stop_reason = stop_reason,
                                                      !.stopped_at = UtcDt(0)],
                   Active(10), NoEngagement, Env(EnvInt(10), real, "off", 0))
        failed == AuditRow(1, 0, source, event_type, "failed", reason)
    IN WithHistory(s, <<failed, failed, failed, AuditRow(1, 0, source, "auto_stop", "triggered", stop_reason)>>,
                   <<[PdcaRow(1, 0, "posting_failed", TRUE) EXCEPT !.errors = 2,
                                                                  !.auto_stop = <<stop_reason, source>>]>>)

\* the databases the operations start from: a fresh one, and one each with
\* an auto-stop over failed publications and over failed token refreshes behind it
OpsSetups ==
    { Setup(TRUE, OpsPosts, Active(10), Active(10), NoEngagement, Env(EnvInt(10), FALSE, "off", 0)),
      AutoStopped(FALSE, "posting_jobs", "posting", "RuntimeError", "auto_anomaly_posting_failures"),
      AutoStopped(TRUE, "oauth", "refresh", "x_auth_refresh_failed", "auto_anomaly_oauth_refresh_failures") }

OpsInit ==
    /\ \E s \in OpsSetups : store = s.store /\ env = s.env
    /\ clock = 0
    /\ runs = 0
    /\ workers = IdleWorkers
    /\ plat = [p \in DOMAIN store.posts |-> 0]
    /\ ret = IdleOut
    /\ lsess = [cost |-> <<>>, ledger |-> NewLedger(1, 0, 0, 0, 0)] /\ lout = IdleOut
    /\ gagent = IdleAgent /\ gaudit = <<>> /\ gpdca = NoPdca /\ gnow = 0 /\ gout = IdleOut
    /\ oauth = IdleOAuth /\ plan = IdlePlan /\ fetches = IdleFetches /\ tasks = IdleTasks

\* POST /api/agents/{id}/stop
OpsStop ==
    \E a \in Agents, until \in {NullDt, Dt(1, "utc")} :
        LET r == StopAgent(a, store.agents[a], store.audits, clock, "maint", until)
        IN /\ runs < MaxRuns
           /\ runs' = runs + 1
           /\ store' = [store EXCEPT !.agents[a] = r.agent, !.audits = r.audits]
           /\ ret' = [op |-> "stop", agent |-> a]
           /\ UNCHANGED <<env, clock, plat, workers, lvars, gvars, ovars>>

\* POST /api/agents/{id}/resume
OpsResume ==
    \E a \in Agents :
        LET r == ResumeAgent(a, store.agents[a], store.audits, clock)
        IN /\ runs < MaxRuns
           /\ runs' = runs + 1
           /\ store' = [store EXCEPT !.agents[a] = r.agent, !.audits = r.audits]
           /\ ret' = [op |-> "resume", agent |-> a]
           /\ UNCHANGED <<env, clock, plat, workers, lvars, gvars, ovars>>

\* run_daily_routine on a day on which the platform lists nothing and the planner drafts nothing
OpsRunDailyRoutine ==
    \E agent_id \in Agents :
        DailyCall(agent_id, 0, DailyInput("none", FALSE, "ok", "ok", "none", <<>>), TRUE, MaxRuns)

OpsNext == PTick \/ PRunPostingJobs \/ OpsRunDailyRoutine \/ OpsStop \/ OpsResume

----------------------------------------------------------------------------
(* Rate limiter harness: EngagementAction rows are inserted and a           *)
(* RateLimiter of agent 1 is asked, for any date, action type, request and  *)
(* limit                                                                    *)

RInit ==
    /\ store = IdleStore /\ ret = IdleOut
    /\ env = IdleEnv /\ clock = 0 /\ plat = <<>> /\ runs = 0 /\ workers = IdleWorkers
    /\ lsess = [cost |-> <<>>, ledger |-> NewLedger(1, 0, 0, 0, 0)] /\ lout = IdleOut
    /\ gagent = IdleAgent /\ gaudit = <<>> /\ gpdca = NoPdca /\ gnow = 0 /\ gout = IdleOut /\ oauth = IdleOAuth /\ plan = IdlePlan /\ fetches = IdleFetches /\ tasks = IdleTasks

\* an EngagementAction row is inserted, executed on day 0 or on day 1
RInsertAction ==
    \E agent_id \in Agents, action_type \in ActionType, day \in Dates :
        /\ Len(store.engaged) < MaxActions
        /\ store' = [store EXCEPT !.engaged = Append(@, EngagementAction(agent_id, action_type, day * DayLen))]
        /\ ret' = [op |-> "insert"]
        /\ UNCHANGED <<env, clock, plat, runs, workers, lvars, gvars, ovars>>

\* RateLimiter(session, agent_id=1, target_date, daily_total_limit).is_limited(action_type, requested)
RIsLimited ==
    \E target_date \in Dates, action_type \in ActionType, requested \in 1..2, daily_total_limit \in {1, 3} :
        /\ ret' = [op |-> "is_limited", agent |-> 1, target_date |-> target_date, action_type |-> action_type,
                   requested |-> requested, daily_total_limit |-> daily_total_limit,
                   result |-> IsRateLimited(store.engaged, 1, target_date, action_type, requested, daily_total_limit)]
        /\ UNCHANGED <<store, env, clock, plat, runs, workers, lvars, gvars, ovars>>

RNext == RInsertAction \/ RIsLimited

----------------------------------------------------------------------------
(* OAuth: /oauth/x/start, /oauth/x/callback and AccountTokenProvider          *)
(*                                                                         *)
(* Time is counted in units of two minutes.  states are the oauth_states   *)
(* rows, tokens the x_auth_tokens row of each account (at most one,        *)
(* uq_x_auth_tokens_account_id); minted counts the states build_state has  *)
(* produced (32 random bytes: no value comes twice), issued the tokens the *)
(* provider has handed out; used and failed keep the states a callback     *)
(* has deleted and those whose exchange then failed.  cb holds, for each   *)
(* of two concurrent callback requests, how far it has come.               *)

OAccounts == {1, 2}
Callbacks == {1, 2}

\* timedelta(minutes=2) in token_for_agent
RefreshMargin == 1

\* state_expiry(minutes=10)
StateExpiry(now) == now + 5

\* expires_in of a token response
ExpiresIn == {1, 2}

\* an OAuthState row
OAuthState(account_id, state, expires_at) == [account_id |-> account_id, state |-> state, expires_at |-> expires_at]

\* an XAuthToken row
XAuthToken(access_token, refresh_token, expires_at) ==
    [present |-> TRUE, access_token |-> access_token, refresh_token |-> refresh_token, expires_at |-> expires_at]

\* the token response the provider sends as its n-th
TokenPayload(n, expires_in) == [access_token |-> n, refresh_token |-> n, expires_in |-> expires_in]

\* _apply_token_payload: the row of the account is inserted or overwritten
ApplyTokenPayload(tokens, account_id, payload, now) ==
    [tokens EXCEPT ![account_id] = XAuthToken(payload.access_token, payload.refresh_token, now + payload.expires_in)]

OTick ==
    \E d \in {1, 5} :
        /\ oauth.now + d <= MaxOTime
        /\ oauth' = [oauth EXCEPT !.now = @ + d]
        /\ UNCHANGED <<lvars, gvars, pvars, plan, fetches, tasks>>

\* oauth_x_start; account 3 does not exist
OStart ==
    \E account_id \in OAccounts \cup {3} :
        /\ oauth.calls < MaxOCalls
        /\ oauth.minted < MaxStates
        /\ oauth' =
             IF account_id \notin OAccounts
             THEN [oauth EXCEPT !.calls = @ + 1,
                                !.out = [op |-> "start", status |-> 404, detail |-> "account_not_found"]]
             ELSE [oauth EXCEPT !.calls = @ + 1,
                                !.minted = @ + 1,
                                !.states = {r \in @ : ~(r.expires_at < oauth.now)}
                                             \cup {OAuthState(account_id, oauth.minted + 1, StateExpiry(oauth.now))},
                                !.out = [op |-> "start", status |-> 302, detail |-> "authorize"]]
        /\ UNCHANGED <<lvars, gvars, pvars, plan, fetches, tasks>>

\* a valid state that is handed out without the lookup of saved_state
OCallbackSelect_AnyState(o, c, state) ==
    [o EXCEPT !.calls = @ + 1,
              !.cb[c] = [pc |-> "found", state |-> state, account_id |-> 1],
              !.out = [op |-> "callback", cb |-> c, state |-> state, status |-> 0, detail |-> "found"]]

\* oauth_x_callback up to the checks of saved_state: request c asks with state
OCallbackSelect(o, c, state) ==
    LET saved == {r \in o.states : r.state = state}
        invalid == [o EXCEPT !.calls = @ + 1,
                             !.out = [op |-> "callback", cb |-> c, state |-> state, status |-> 400,
                                      detail |-> "oauth_state_invalid"]]
    IN IF saved = {} THEN invalid
       ELSE LET saved_state == CHOOSE r \in saved : TRUE
            IN IF saved_state.expires_at < o.now THEN invalid
               ELSE [o EXCEPT !.calls = @ + 1,
                              !.cb[c] = [pc |-> "found", state |-> state, account_id |-> saved_state.account_id],
                              !.out = [op |-> "callback", cb |-> c, state |-> state, status |-> 0, detail |-> "found"]]

\* the states a callback may be asked with: those minted and one that never was
OCallbackFind ==
    \E c \in Callbacks, state \in 1..(MaxStates + 1) :
        /\ oauth.calls < MaxOCalls
        /\ oauth.cb[c].pc = "idle"
        /\ oauth' = OCallbackSelect(oauth, c, state)
        /\ UNCHANGED <<lvars, gvars, pvars, plan, fetches, tasks>>

\* session.delete(saved_state); session.commit(): a row another request has
\* deleted meanwhile matches no row, which the session passes over
OCallbackDelete ==
    \E c \in Callbacks :
        /\ oauth.cb[c].pc = "found"
        /\ oauth' = [oauth EXCEPT !.states = {r \in @ : r.state # oauth.cb[c].state},
                                  !.used = @ \cup {oauth.cb[c].state},
                                  !.cb[c].pc = "exchange"]
        /\ UNCHANGED <<lvars, gvars, pvars, plan, fetches, tasks>>

\* exchange_code_for_token and _apply_token_payload: the provider answers with
\* a token ("ok"), the request fails ("error": XOAuthError), or the answer
\* lacks a token ("invalid": x_oauth_token_invalid)
OCallbackExchange ==
    \E c \in Callbacks, outcome \in {"ok", "error", "invalid"}, expires_in \in ExpiresIn :
        LET account_id == oauth.cb[c].account_id
            state == oauth.cb[c].state
        IN /\ oauth.cb[c].pc = "exchange"
           /\ outcome # "ok" => expires_in = 1
           /\ oauth' =
                IF outcome = "ok"
                THEN [oauth EXCEPT !.cb[c] = IdleCallback,
                                   !.issued = @ + 1,
                                   !.tokens = ApplyTokenPayload(@, account_id,
                                                                TokenPayload(oauth.issued + 1, expires_in), oauth.now),
                                   !.out = [op |-> "callback", cb |-> c, state |-> state, status |-> 302,
                                            detail |-> "connected"]]
                ELSE [oauth EXCEPT !.cb[c] = IdleCallback,
                                   !.failed = @ \cup {state},
                                   !.out = [op |-> "callback", cb |-> c, state |-> state, status |-> 502,
                                            detail |-> IF outcome = "error" THEN "x_oauth_token_request_failed"
                                                       ELSE "x_oauth_token_invalid"]]
           /\ UNCHANGED <<lvars, gvars, pvars, plan, fetches, tasks>>

OInit ==
    /\ oauth = IdleOAuth /\ plan = IdlePlan /\ fetches = IdleFetches /\ tasks = IdleTasks
    /\ store = IdleStore /\ ret = IdleOut
    /\ env = IdleEnv /\ clock = 0 /\ plat = <<>> /\ runs = 0 /\ workers = IdleWorkers
    /\ lsess = [cost |-> <<>>, ledger |-> NewLedger(1, 0, 0, 0, 0)] /\ lout = IdleOut
    /\ gagent = IdleAgent /\ gaudit = <<>> /\ gpdca = NoPdca /\ gnow = 0 /\ gout = IdleOut

ONext == OTick \/ OStart \/ OCallbackFind \/ OCallbackDelete \/ OCallbackExchange

\* what a refresh request can come to: the variable X_OAUTH_CLIENT_ID is
\* missing, the request fails (httpx.HTTPError), the body of the answer is
\* no JSON, is JSON but no object, is an object without the token fields,
\* or is a token response
RefreshOutcomes == {"no_client_id", "http_error", "not_json", "not_dict", "invalid_payload", "ok"}

\* what token_for_agent hands back or raises
TokenResult(o, agent, result, exc, access_token, contacted, outcome) ==
    [o EXCEPT !.calls = @ + 1,
              !.out = [op |-> "token_for_agent", agent |-> agent, result |-> result, exc |-> exc,
                       access_token |-> access_token, contacted |-> contacted, outcome |-> outcome]]

\* AccountTokenProvider._refresh on the row of account_id
Refresh(o, account_id, outcome, expires_in) ==
    IF outcome = "no_client_id"
    THEN TokenResult(o, account_id, "raised", "XAuthRefreshError", 0, FALSE, outcome)
    ELSE IF outcome \in {"http_error", "not_dict", "invalid_payload"}
    THEN TokenResult(o, account_id, "raised", "XAuthRefreshError", 0, TRUE, outcome)
    ELSE IF outcome = "not_json"
    THEN TokenResult(o, account_id, "raised", "JSONDecodeError", 0, TRUE, outcome)
    ELSE LET parsed == TokenPayload(o.issued + 1, expires_in)
             o1 == [o EXCEPT !.issued = @ + 1,
                             !.tokens[account_id] = XAuthToken(parsed.access_token, parsed.refresh_token,
                                                               o.now + parsed.expires_in)]
         IN TokenResult(o1, account_id, "returned", NULL, parsed.access_token, TRUE, outcome)

\* AccountTokenProvider.token_for_agent(agent, now) with agent.account_id = account_id
TokenForAgent(o, account_id, outcome, expires_in) ==
    LET token == o.tokens[account_id]
    IN IF ~token.present
       THEN TokenResult(o, account_id, "raised", "XAuthRefreshError", 0, FALSE, "none")
       ELSE IF token.expires_at <= o.now + RefreshMargin
       THEN Refresh(o, account_id, outcome, expires_in)
       ELSE TokenResult(o, account_id, "returned", NULL, token.access_token, FALSE, "none")

OTokenForAgent ==
    \E account_id \in OAccounts, outcome \in RefreshOutcomes, expires_in \in ExpiresIn :
        /\ oauth.calls < MaxOCalls
        /\ outcome # "ok" => expires_in = 1
        /\ oauth' = TokenForAgent(oauth, account_id, outcome, expires_in)
        /\ UNCHANGED <<lvars, gvars, pvars, plan, fetches, tasks>>

\* the accounts hold no token or the first one the provider issued, with any expiry
TokenInit ==
    /\ \E tokens \in [OAccounts -> {NoToken} \cup {XAuthToken(1, 1, e) : e \in 0..MaxOTime}] :
          oauth = [IdleOAuth EXCEPT !.tokens = tokens, !.issued = 1]
    /\ plan = IdlePlan /\ fetches = IdleFetches /\ tasks = IdleTasks
    /\ store = IdleStore /\ ret = IdleOut
    /\ env = IdleEnv /\ clock = 0 /\ plat = <<>> /\ runs = 0 /\ workers = IdleWorkers
    /\ lsess = [cost |-> <<>>, ledger |-> NewLedger(1, 0, 0, 0, 0)] /\ lout = IdleOut
    /\ gagent = IdleAgent /\ gaudit = <<>> /\ gpdca = NoPdca /\ gnow = 0 /\ gout = IdleOut

TokenNext == OTick \/ OTokenForAgent

----------------------------------------------------------------------------
(* Planner: build_post_drafts                                              *)
(*                                                                         *)
(* A ratio is the number of fifths its environment variable holds          *)
(* (PLAN_THREAD_RATIO=0.4 is 2, a negative value is possible), targets     *)
(* the urls of the agent's unused TargetPostCandidate rows of the date in  *)
(* query order, fits whether the ledger accepts the plan cost.  The texts  *)
(* of the drafts are left out.                                             *)

MaxPosts == 5
MaxRatio == 6
MaxTargets == 2

\* the default ratio 0.2 is one fifth
RatioDen == 5

TargetUrls == <<"u1", "u2", "u3">>

PostDraft(type, target_post_url) == [type |-> type, target_post_url |-> target_post_url]

\* int(posts_per_day * max(0.0, ratio))
RatioCount(posts_per_day, ratio) == (posts_per_day * Max(0, ratio)) \div RatioDen

\* while overflow > 0 and count > 0: count -= 1; overflow -= 1
RECURSIVE Shave(_, _)
Shave(count, overflow) ==
    IF overflow > 0 /\ count > 0
    THEN Shave(count - 1, overflow - 1)
    ELSE [count |-> count, overflow |-> overflow]

\* the counts before the adjustments
PlanMix_Uncapped(posts_per_day, thread_ratio, reply_ratio, quote_ratio) ==
    LET thread_count == RatioCount(posts_per_day, thread_ratio)
        reply_count == Min(posts_per_day - thread_count, RatioCount(posts_per_day, reply_ratio))
        quote_count == Min(posts_per_day - thread_count - reply_count,
                           RatioCount(posts_per_day, quote_ratio))
    IN [thread |-> thread_count, reply |-> reply_count, quote |-> quote_count]

PlanMix(posts_per_day, thread_ratio, reply_ratio, quote_ratio) ==
    LET thread_count == Min(posts_per_day, RatioCount(posts_per_day, thread_ratio))
        reply_count == Min(posts_per_day - thread_count, RatioCount(posts_per_day, reply_ratio))
        quote_count == Min(posts_per_day - thread_count - reply_count,
                           RatioCount(posts_per_day, quote_ratio))
    IN [thread |-> thread_count, reply |-> reply_count, quote |-> quote_count]

\* without a target reply and quote go to thread; reply + quote above three is shaved
AdjustMix_ReplyFirst(posts_per_day, mix, targets) ==
    LET m1 == IF targets = <<>>
              THEN [thread |-> Min(posts_per_day, mix.thread + mix.reply + mix.quote),
                    reply |-> 0, quote |-> 0]
              ELSE mix
        overflow == m1.reply + m1.quote - 3
        r == Shave(m1.reply, overflow)
        q == Shave(m1.quote, r.overflow)
    IN IF m1.reply + m1.quote > 3
       THEN [thread |-> m1.thread, reply |-> r.count, quote |-> q.count]
       ELSE m1

AdjustMix(posts_per_day, mix, targets) ==
    LET m1 == IF targets = <<>>
              THEN [thread |-> Min(posts_per_day, mix.thread + mix.reply + mix.quote),
                    reply |-> 0, quote |-> 0]
              ELSE mix
        overflow == m1.reply + m1.quote - 3
        q == Shave(m1.quote, overflow)
        r == Shave(m1.reply, q.overflow)
    IN IF m1.reply + m1.quote > 3
       THEN [thread |-> m1.thread, reply |-> r.count, quote |-> q.count]
       ELSE m1

\* targets[idx % len(targets)], idx counted from 0
TargetAt(targets, idx) == targets[(idx % Len(targets)) + 1]

BuildPostDrafts(posts_per_day, thread_ratio, reply_ratio, quote_ratio, targets, fits) ==
    LET mix == PlanMix(posts_per_day, thread_ratio, reply_ratio, quote_ratio)
        m == AdjustMix(posts_per_day, mix, targets)
        tweet_count == Max(0, posts_per_day - m.thread - m.reply - m.quote)
        drafts == [i \in 1..tweet_count |-> PostDraft("tweet", NULL)]
                  \o [i \in 1..m.thread |-> PostDraft("thread", NULL)]
                  \o [i \in 1..m.reply |-> PostDraft("reply", TargetAt(targets, i - 1))]
                  \o [i \in 1..m.quote |-> PostDraft("quote_rt", TargetAt(targets, m.reply + i - 1))]
    IN IF posts_per_day <= 0
       THEN [exc |-> NULL, drafts |-> <<>>, mix |-> [thread |-> 0, reply |-> 0, quote |-> 0]]
       ELSE IF ~fits
       THEN [exc |-> "BudgetExceededError", drafts |-> <<>>,
             mix |-> [thread |-> 0, reply |-> 0, quote |-> 0]]
       ELSE [exc |-> NULL, drafts |-> drafts, mix |-> mix]

PlanInit ==
    /\ \E posts_per_day \in 0..MaxPosts, thread_ratio, reply_ratio, quote_ratio \in (0-1)..MaxRatio,
          n \in 0..MaxTargets, fits \in BOOLEAN :
          plan = [called |-> FALSE, posts_per_day |-> posts_per_day, thread_ratio |-> thread_ratio,
                  reply_ratio |-> reply_ratio, quote_ratio |-> quote_ratio,
                  targets |-> SubSeq(TargetUrls, 1, n), fits |-> fits,
                  out |-> [exc |-> NULL, drafts |-> <<>>,
                           mix |-> [thread |-> 0, reply |-> 0, quote |-> 0]]]
    /\ oauth = IdleOAuth /\ fetches = IdleFetches /\ tasks = IdleTasks
    /\ store = IdleStore /\ ret = IdleOut
    /\ env = IdleEnv /\ clock = 0 /\ plat = <<>> /\ runs = 0 /\ workers = IdleWorkers
    /\ lsess = [cost |-> <<>>, ledger |-> NewLedger(1, 0, 0, 0, 0)] /\ lout = IdleOut
    /\ gagent = IdleAgent /\ gaudit = <<>> /\ gpdca = NoPdca /\ gnow = 0 /\ gout = IdleOut

PlanBuild ==
    /\ ~plan.called
    /\ plan' = [plan EXCEPT !.called = TRUE,
                            !.out = BuildPostDrafts(plan.posts_per_day, plan.thread_ratio,
                                                    plan.reply_ratio, plan.quote_ratio,
                                                    plan.targets, plan.fits)]
    /\ UNCHANGED <<lvars, gvars, pvars, oauth, fetches, tasks>>

PlanNext == PlanBuild

----------------------------------------------------------------------------
(* Fetch step of the daily routine: FetchLimiter and _run_fetch_and_summary *)
(*                                                                         *)
(* rows are the committed FetchLog rows in id order, toggle the            *)
(* web_fetch_max feature toggle the agents hold.  A run has at most one web search record  *)
(* (_build_research_queries gives one query): record tells whether it is   *)
(* there and needs a fetch ("none"), has no result with a url ("no_url")   *)
(* or has one ("url"); fits whether the ledger accepts the fetch cost,     *)
(* fetched the status WebFetchClient answers with, summary what the        *)
(* summarize step does ("none": not attempted, "ok", "failed": the ledger  *)
(* or the summarizer raises), commits whether the routine reaches its      *)
(* commit afterwards.                                                      *)

MaxFetchMax == 2
MaxFetchRuns == 3

FetchLog(agent_id, d, status, failure_reason) ==
    [agent |-> agent_id, date |-> d, status |-> status, failure_reason |-> failure_reason]

\* _int_toggle(agent, "web_fetch_max", ...) of a toggle that holds an integer
IntToggle(value) == Max(0, value)

\* FetchLimiter._count
FetchCount_AnyStatus(rows, agent_id, d) ==
    Cardinality({i \in DOMAIN rows : rows[i].agent = agent_id /\ rows[i].date = d})

FetchCount(rows, agent_id, d) ==
    Cardinality({i \in DOMAIN rows : /\ rows[i].agent = agent_id
                                     /\ rows[i].date = d
                                     /\ rows[i].status \in {"succeeded", "failed"}})

\* FetchLimiter.is_limited
FetchIsLimited(rows, agent_id, d, requested, web_fetch_max) ==
    FetchCount(rows, agent_id, d) + requested > web_fetch_max

\* _run_fetch_and_summary: the rows of the session after it, whether the fetch
\* client was called, and the reason of a skip.  The failure_reason of a failed
\* row is the client's or summarize_failed: written "failed" for both.
RunFetchAndSummary(rows, agent_id, d, web_fetch_max, in) ==
    LET status == IF in.fetched = "succeeded" /\ in.summary = "failed" THEN "failed" ELSE in.fetched
        reason == IF status = "failed" THEN "failed" ELSE NULL
    IN IF in.record # "url"
       THEN [rows |-> rows, fetched |-> FALSE, skipped |-> NULL]
       ELSE IF FetchIsLimited(rows, agent_id, d, 1, web_fetch_max)
       THEN [rows |-> Append(rows, FetchLog(agent_id, d, "skipped", "fetch_limit_reached")),
             fetched |-> FALSE, skipped |-> "fetch_limit_reached"]
       ELSE IF ~in.fits
       THEN [rows |-> Append(rows, FetchLog(agent_id, d, "skipped", "fetch_budget_exceeded")),
             fetched |-> FALSE, skipped |-> "fetch_budget_exceeded"]
       ELSE [rows |-> Append(rows, FetchLog(agent_id, d, status, reason)),
             fetched |-> TRUE, skipped |-> NULL]

FetchInputs ==
    [record : {"none", "no_url", "url"}, fits : BOOLEAN, fetched : {"succeeded", "failed"},
     summary : {"none", "ok", "failed"}, commits : BOOLEAN]

FetchInit ==
    /\ \E toggle \in (0-1)..MaxFetchMax :
          fetches = [rows |-> <<>>, toggle |-> toggle, runs |-> 0, agent |-> 1, date |-> 0,
                     record |-> "none", commits |-> TRUE, fetched |-> FALSE, skipped |-> NULL]
    /\ oauth = IdleOAuth /\ plan = IdlePlan /\ tasks = IdleTasks
    /\ store = IdleStore /\ ret = IdleOut
    /\ env = IdleEnv /\ clock = 0 /\ plat = <<>> /\ runs = 0 /\ workers = IdleWorkers
    /\ lsess = [cost |-> <<>>, ledger |-> NewLedger(1, 0, 0, 0, 0)] /\ lout = IdleOut
    /\ gagent = IdleAgent /\ gaudit = <<>> /\ gpdca = NoPdca /\ gnow = 0 /\ gout = IdleOut

\* one run of the daily routine for (agent_id, d), as far as FetchLog goes
FRunDailyRoutine ==
    \E agent_id \in Agents, d \in Dates, in \in FetchInputs :
        /\ fetches.runs < MaxFetchRuns
        /\ in.record # "url" => in.fits /\ in.fetched = "succeeded" /\ in.summary = "none"
        /\ in.fetched = "failed" => in.summary = "none"
        /\ \E R \in {RunFetchAndSummary(fetches.rows, agent_id, d,
                                         IntToggle(fetches.toggle), in)} :
              fetches' = [fetches EXCEPT !.rows = IF in.commits THEN R.rows ELSE @,
                                         !.runs = @ + 1, !.agent = agent_id, !.date = d,
                                         !.record = in.record, !.commits = in.commits,
                                         !.fetched = R.fetched, !.skipped = R.skipped]
        /\ UNCHANGED <<lvars, gvars, pvars, oauth, plan, tasks>>

FetchNext == FRunDailyRoutine

----------------------------------------------------------------------------
(* Concurrent tasks on one CostLog table: each task has its own session    *)
(* and its own BudgetLedger for (agent 1, date 0).  The engine is created  *)
(* without an isolation level, so the transactions run at the database's   *)
(* default, READ COMMITTED: a statement sees what is committed and what    *)
(* its own transaction has written, and an UPDATE waits for the            *)
(* transaction that holds the row                                          *)

MaxLimit == 3           \* the limits of the task harness range over 1..MaxLimit
MaxCommits == 2         \* session.commit() calls in one behaviour of the task harness

Tasks == {1, 2}
\* an owner that is no task: the row is committed
NoTask == MinOf(Tasks) - 1

\* a CostLog row of the table and what each session holds of it: amt are the
\* committed columns and owner the task whose open transaction inserted the
\* row (NoTask once it is committed); per task, loaded, old and mem are the
\* ORM object of its identity map (the columns as loaded or last flushed and
\* as they are now), wrote and w what its transaction has flushed
TaskRow(amt, owner) ==
    [amt |-> IF owner = NoTask THEN amt ELSE ZeroAmt, owner |-> owner,
     loaded |-> [t \in Tasks |-> owner = t],
     old |-> [t \in Tasks |-> ZeroAmt],
     mem |-> [t \in Tasks |-> IF owner = t THEN amt ELSE ZeroAmt],
     wrote |-> [t \in Tasks |-> FALSE],
     w |-> [t \in Tasks |-> ZeroAmt]]

\* the SELECTs of task t see the row
TaskSees(row, t) == row.owner = NoTask \/ (row.owner = t /\ row.wrote[t])

\* the columns the SELECTs of task t read
TaskDb(row, t) == IF row.wrote[t] THEN row.w[t] ELSE row.amt

\* the table as the session of task t has it: the rows of its SELECTs and its ORM objects
TaskCost(rows, t) ==
    [i \in DOMAIN rows |->
        [agent |-> 1, date |-> 0,
         mem |-> IF rows[i].loaded[t] THEN rows[i].mem[t] ELSE TaskDb(rows[i], t),
         db |-> IF TaskSees(rows[i], t) THEN TaskDb(rows[i], t) ELSE ZeroAmt,
         inDb |-> TaskSees(rows[i], t)]]

\* BudgetLedger.commit of task t: the row it finds is loaded into the session
\* (an object the session holds already keeps its attributes) and changed in memory
TaskLedgerCommit(rows, t, L) ==
    LET view == TaskCost(rows, t)
        r == LedgerCommit(view, L)
        kept == [i \in DOMAIN rows |->
                    IF r.cost[i].mem = view[i].mem THEN rows[i]
                    ELSE [rows[i] EXCEPT !.loaded[t] = TRUE,
                                         !.old[t] = IF rows[i].loaded[t] THEN @ ELSE view[i].mem,
                                         !.mem[t] = r.cost[i].mem]]
    IN IF Len(r.cost) > Len(rows) THEN Append(kept, TaskRow(r.cost[Len(r.cost)].mem, t)) ELSE kept

\* the rows a flush of task t's session writes
TaskDirty(rows, t) ==
    {i \in DOMAIN rows : /\ rows[i].loaded[t]
                         /\ \/ rows[i].owner = t /\ ~rows[i].wrote[t]
                            \/ rows[i].mem[t] # rows[i].old[t]}

\* another transaction holds a row the flush of task t has to update
TaskBlocked(rows, t) ==
    \E i \in TaskDirty(rows, t), u \in Tasks \ {t} : rows[i].wrote[u]

\* the UPDATE of one row: the columns whose attribute changed are SET to the
\* object's values, the others stay as the row has them
TaskUpdate(row, t) ==
    LET now == TaskDb(row, t)
    IN [f \in DOMAIN ZeroAmt |-> IF row.mem[t][f] # row.old[t][f] THEN row.mem[t][f] ELSE now[f]]

\* Session.flush of task t: INSERT its pending rows, UPDATE its changed ones
TaskFlush(rows, t) ==
    [i \in DOMAIN rows |->
        IF i \notin TaskDirty(rows, t) THEN rows[i]
        ELSE IF rows[i].owner = t /\ ~rows[i].wrote[t]
             THEN [rows[i] EXCEPT !.wrote[t] = TRUE, !.w[t] = rows[i].mem[t], !.old[t] = rows[i].mem[t]]
             ELSE [rows[i] EXCEPT !.wrote[t] = TRUE, !.w[t] = TaskUpdate(rows[i], t), !.old[t] = rows[i].mem[t]]]

\* the end of Session.commit of task t: what it wrote is committed and its objects expire
TaskCommit(rows, t) ==
    [i \in DOMAIN rows |->
        [rows[i] EXCEPT !.amt = IF rows[i].wrote[t] THEN rows[i].w[t] ELSE @,
                        !.owner = IF @ = t THEN NoTask ELSE @,
                        !.loaded[t] = FALSE, !.old[t] = ZeroAmt, !.mem[t] = ZeroAmt,
                        !.wrote[t] = FALSE, !.w[t] = ZeroAmt]]

NothingMoved == [x |-> 0, llm |-> 0]

TaskTables ==
    { <<>>, <<TaskRow([x |-> 100, xe |-> 100, llm |-> 0, total |-> 100], NoTask)>> }

\* paid is what the ledgers of committed transactions have moved to the
\* table, the rows the table started with included; raced tells that both
\* tasks held a reservation at a time when neither had committed its ledger
TaskInit ==
    /\ \E table \in TaskTables, daily \in 1..MaxLimit, sx \in 1..MaxLimit, sllm \in 1..MaxLimit :
          tasks = [rows |-> table,
                   ledger |-> [t \in Tasks |-> NewLedger(1, 0, daily, sx, sllm)],
                   moved |-> [t \in Tasks |-> NothingMoved],
                   paid |-> [x |-> SeqSum([i \in DOMAIN table |-> table[i].amt.x]),
                             llm |-> SeqSum([i \in DOMAIN table |-> table[i].amt.llm])],
                   commits |-> 0, raced |-> FALSE]
    /\ oauth = IdleOAuth /\ plan = IdlePlan /\ fetches = IdleFetches
    /\ store = IdleStore /\ ret = IdleOut
    /\ env = IdleEnv /\ clock = 0 /\ plat = <<>> /\ runs = 0 /\ workers = IdleWorkers
    /\ lsess = [cost |-> <<>>, ledger |-> NewLedger(1, 0, 0, 0, 0)] /\ lout = IdleOut
    /\ gagent = IdleAgent /\ gaudit = <<>> /\ gpdca = NoPdca /\ gnow = 0 /\ gout = IdleOut

\* ledger.reserve in task t; a task is one unit of work: it reserves, commits
\* its ledger once, and ends with session.commit, with or without a flush before it
TReserve(t) ==
    \E x \in CostChoices, l \in CostChoices :
        LET L == tasks.ledger[t]
            ok == ReserveOk(TaskCost(tasks.rows, t), L, x, l)
        IN /\ x + l > 0
           /\ tasks.commits < MaxCommits
           /\ tasks.moved[t] = NothingMoved
           /\ tasks' = [tasks EXCEPT
                 !.ledger[t] = Reserve(TaskCost(tasks.rows, t), L, x, l),
                 !.raced = @ \/ (/\ ok
                                 /\ \A u \in Tasks : tasks.moved[u] = NothingMoved
                                 /\ \E u \in Tasks \ {t} :
                                       tasks.ledger[u].x_reserved + tasks.ledger[u].llm_reserved > 0)]
           /\ UNCHANGED <<lvars, gvars, pvars, oauth, plan, fetches>>

\* ledger.commit in task t
TLedgerCommit(t) ==
    LET L == tasks.ledger[t]
        moved == [x |-> tasks.moved[t].x + L.x_reserved, llm |-> tasks.moved[t].llm + L.llm_reserved]
        rows == TaskLedgerCommit(tasks.rows, t, L)
    IN /\ L.x_reserved + L.llm_reserved > 0
       /\ moved.x + moved.llm <= MaxLimit * 100
       /\ Len(rows) <= MaxCostRows
       /\ tasks' = [tasks EXCEPT !.rows = rows,
                                 !.ledger[t] = LedgerCommit(TaskCost(tasks.rows, t), L).ledger,
                                 !.moved[t] = moved]
       /\ UNCHANGED <<lvars, gvars, pvars, oauth, plan, fetches>>

\* session.flush in task t, which waits while another transaction holds a row it updates
TFlush(t) ==
    /\ TaskDirty(tasks.rows, t) # {}
    /\ ~TaskBlocked(tasks.rows, t)
    /\ tasks' = [tasks EXCEPT !.rows = TaskFlush(tasks.rows, t)]
    /\ UNCHANGED <<lvars, gvars, pvars, oauth, plan, fetches>>

\* session.commit in task t, the end of the task: the next one in its place
\* constructs a fresh ledger
TSessionCommit(t) ==
    /\ tasks.commits < MaxCommits
    /\ tasks.moved[t] # NothingMoved
    /\ ~TaskBlocked(tasks.rows, t)
    /\ tasks' = [tasks EXCEPT !.rows = TaskCommit(TaskFlush(tasks.rows, t), t),
                              !.ledger[t] = [@ EXCEPT !.x_reserved = 0, !.llm_reserved = 0],
                              !.moved[t] = NothingMoved,
                              !.paid = [x |-> @.x + tasks.moved[t].x, llm |-> @.llm + tasks.moved[t].llm],
                              !.commits = @ + 1]
    /\ UNCHANGED <<lvars, gvars, pvars, oauth, plan, fetches>>

TReserveSome == \E t \in Tasks : TReserve(t)
TLedgerCommitSome == \E t \in Tasks : TLedgerCommit(t)
TFlushSome == \E t \in Tasks : TFlush(t)
TSessionCommitSome == \E t \in Tasks : TSessionCommit(t)

TaskNext == TReserveSome \/ TLedgerCommitSome \/ TFlushSome \/ TSessionCommitSome

----------------------------------------------------------------------------
(* Properties of the ledger *)

\* the sum of column f over the CostLog rows the database holds for (a, d)
C3_DbSum(cost, a, d, f) ==
    SeqSum([i \in DOMAIN cost |->
              IF cost[i].inDb /\ cost[i].agent = a /\ cost[i].date = d THEN cost[i].db[f] ELSE 0])

C3_Fits(cost, L, x, l) ==
    /\ C3_DbSum(cost, L.agent, L.date, "x") + L.x_reserved + x <= L.x_limit
    /\ C3_DbSum(cost, L.agent, L.date, "llm") + L.llm_reserved + l <= L.llm_limit
    /\ C3_DbSum(cost, L.agent, L.date, "total") + L.x_reserved + L.llm_reserved + x + l <= L.daily_limit

\* C3: reserve(x, l) succeeds iff the x bucket, the llm bucket and the daily
\* total, each counted as spent (the CostLog sums read at the call) plus
\* reserved plus requested, stay within their limits; on success the
\* reservations grow by exactly (x, l); on failure it raises and leaves the
\* reservations unchanged; no CostLog row changes either way.
C3_ReserveBudgetSafety ==
    [][lout'.op = "reserve" =>
         LET L == lsess.ledger
             fits == C3_Fits(lsess.cost, L, lout'.x, lout'.l)
         IN /\ lout'.raised <=> ~fits
            /\ fits => lsess'.ledger = [L EXCEPT !.x_reserved = @ + lout'.x, !.llm_reserved = @ + lout'.l]
            /\ ~fits => lsess'.ledger = L
            /\ lsess'.cost = lsess.cost]_vars

\* C3 witness: a reserve raised although a part of the budget was reserved
\* before and neither bucket alone was exceeded (the daily limit decided)
C3_Witness ==
    /\ lout.op = "reserve" /\ lout.raised
    /\ lsess.ledger.x_reserved > 0
    /\ lsess.ledger.x_reserved + lout.x <= lsess.ledger.x_limit
    /\ lsess.ledger.llm_reserved + lout.l <= lsess.ledger.llm_limit
    /\ lout.x + lout.l > 0

\* the sum of column f over the CostLog rows of (a, d) as the next flush of
\* the session writes them
C4_Sum(cost, a, d, f) ==
    SeqSum([i \in DOMAIN cost |->
              IF cost[i].agent = a /\ cost[i].date = d THEN cost[i].mem[f] ELSE 0])

C4_Keys == {<<a, d>> : a \in Agents, d \in Dates}

\* C4: commit() raises the CostLog sums of (agent, date) by exactly the
\* outstanding reservations (x_api_cost and x_api_cost_estimate by
\* x_reserved, llm_cost by llm_reserved, total by their sum), leaves the sums
\* of every other (agent, date) alone, resets both reservations, and creates
\* or changes no row when nothing is reserved; so a commit right after a
\* commit changes nothing.
C4_LedgerCommit ==
    [][lout'.op = "commit" =>
         LET L == lsess.ledger
             c0 == lsess.cost
             c1 == lsess'.cost
         IN /\ C4_Sum(c1, L.agent, L.date, "x") = C4_Sum(c0, L.agent, L.date, "x") + L.x_reserved
            /\ C4_Sum(c1, L.agent, L.date, "xe") = C4_Sum(c0, L.agent, L.date, "xe") + L.x_reserved
            /\ C4_Sum(c1, L.agent, L.date, "llm") = C4_Sum(c0, L.agent, L.date, "llm") + L.llm_reserved
            /\ C4_Sum(c1, L.agent, L.date, "total") =
                   C4_Sum(c0, L.agent, L.date, "total") + L.x_reserved + L.llm_reserved
            /\ \A k \in C4_Keys : k # <<L.agent, L.date>> =>
                   \A f \in {"x", "xe", "llm", "total"} : C4_Sum(c1, k[1], k[2], f) = C4_Sum(c0, k[1], k[2], f)
            /\ lsess'.ledger = [L EXCEPT !.x_reserved = 0, !.llm_reserved = 0]
            /\ (L.x_reserved = 0 /\ L.llm_reserved = 0) => c1 = c0
            /\ lout.op = "commit" => lsess' = lsess]_vars

\* C4 witness: a commit has just added its reservations to a row that was
\* already in the database
C4_Witness ==
    /\ lout.op = "commit"
    /\ \E i \in DOMAIN lsess.cost :
          /\ lsess.cost[i].inDb
          /\ lsess.cost[i].mem.x > lsess.cost[i].db.x
          /\ lsess.cost[i].mem.total = lsess.cost[i].db.total + (lsess.cost[i].mem.x - lsess.cost[i].db.x)

----------------------------------------------------------------------------
(* Properties of the guard *)

\* the instant stop_until denotes when a timezone-less value is read as UTC
C9_UntilInstant(dt) == IF dt.tz = "plus1" THEN dt.wall - 1 ELSE dt.wall

\* C9: is_agent_runnable(agent, now) is true iff status is active and
\* stop_until is null or not after now (a timezone-less stop_until read as
\* UTC), and the call changes nothing.
C9_IsAgentRunnable ==
    [][gout'.op = "runnable" =>
         /\ gout'.result <=> (/\ gagent.status = "active"
                              /\ (gagent.stop_until.null \/ C9_UntilInstant(gagent.stop_until) <= gnow))
         /\ UNCHANGED <<gagent, gaudit, gpdca, gnow>>]_vars

\* C9 witness: an active agent whose timezone-less stop_until is exactly now is runnable
C9_Witness ==
    /\ gout.op = "runnable" /\ gout.result
    /\ ~gagent.stop_until.null /\ gagent.stop_until.tz = NAIVE /\ gagent.stop_until.wall = gnow
    /\ gnow > 0

\* C7: maybe_auto_stop with reason R on an agent not already stopped with R
\* sets status=stopped, stop_reason=R, stopped_at=now and appends exactly one
\* auto_stop/triggered audit row; on an agent already stopped with R it
\* changes no agent field and appends no audit row.
C7_AutoStopIdempotent ==
    [][gout'.op = "auto_stop" =>
         LET R == gout'.reason
         IN IF gagent.status = "stopped" /\ gagent.stop_reason = R
            THEN gagent' = gagent /\ gaudit' = gaudit
            ELSE /\ gagent'.status = "stopped"
                 /\ gagent'.stop_reason = R
                 /\ gagent'.stopped_at = [null |-> FALSE, wall |-> gnow, tz |-> "utc"]
                 /\ gagent'.stop_until = gagent.stop_until
                 /\ Len(gaudit') = Len(gaudit) + 1
                 /\ SubSeq(gaudit', 1, Len(gaudit)) = gaudit
                 /\ LET row == gaudit'[Len(gaudit')]
                    IN row.event_type = "auto_stop" /\ row.status = "triggered" /\ row.reason = R]_vars

\* C7 witness: an agent stopped by hand is auto-stopped with another reason,
\* and a repeated call with that reason then changes nothing
C7_Witness ==
    /\ gout.op = "auto_stop" /\ ~gout.changed
    /\ gagent.status = "stopped" /\ gagent.stop_reason = gout.reason
    /\ \E i \in DOMAIN gaudit : gaudit[i].event_type = "manual_stop"
    /\ Cardinality({i \in DOMAIN gaudit : gaudit[i].event_type = "auto_stop"}) = 1

----------------------------------------------------------------------------
(* Properties of the posting worker and of the daily routine *)

\* the posts the concurrent workers have marked posted, worker after worker
RECURSIVE MarkedBy(_)
MarkedBy(ws) ==
    IF ws = {} THEN <<>>
    ELSE LET w == CHOOSE v \in ws : TRUE IN workers[w].marked \o MarkedBy(ws \ {w})

\* the posts that have come due and that no earlier history had published
DuePosts ==
    {p \in DOMAIN store.posts : /\ store.posts[p].scheduled_at # NoTime
                                 /\ store.posts[p].scheduled_at <= clock
                                 /\ (store.posts[p].posted_at = NoTime \/ p \in Range(MarkedBy(Workers)))}

\* C1: with concurrent posting workers on one store, the posts marked posted,
\* summed over the workers, are at most the due posts; no post has posted_at
\* written by two runs; and the platform has accepted no post more than once.
C1_ClaimAtMostOnce ==
    /\ Len(MarkedBy(Workers)) <= Cardinality(DuePosts)
    /\ \A i, j \in DOMAIN MarkedBy(Workers) : i # j => MarkedBy(Workers)[i] # MarkedBy(Workers)[j]
    /\ \A p \in DOMAIN plat : plat[p] <= 1

\* the audit rows with the given source, event type and status
CountAudits(audits, source, event_type, status) ==
    Cardinality({i \in DOMAIN audits : /\ audits[i].source = source
                                        /\ audits[i].event_type = event_type
                                        /\ audits[i].status = status})

\* the case of C10: real-platform mode, an empty audit log, and the run
\* claims exactly three due posts, all of one runnable agent a whose token
\* acquisition fails
C10_Case(a) ==
    /\ ret'.op = "posting" /\ env.real
    /\ store.audits = <<>>
    /\ IsAgentRunnable(store.agents[a], UtcDt(clock))
    /\ Len(ret'.batch) = 3
    /\ \A i \in DOMAIN ret'.batch : store.posts[ret'.batch[i]].agent = a
    /\ a \notin ret'.tokens

ReturnedPosted(st, p) == st.posts[p].posted_at # NoTime /\ st.posts[p].external_id # NoExt /\ st.posts[p].external_id[1] = p

\* C2: once a run has returned `posted` for a post, a later run returns no
\* result for it, does not call the poster for it and leaves its posted_at and
\* external_id alone; and the platform has accepted a post for which a run
\* returns `posted` exactly once.
C2_SequentialIdempotence ==
    [][ret'.op = "posting" =>
          \A p \in DOMAIN store.posts :
              /\ ReturnedPosted(store, p) =>
                    /\ \A i \in DOMAIN ret'.results : ret'.results[i].post # p
                    /\ plat'[p] = plat[p]
                    /\ store'.posts[p].posted_at = store.posts[p].posted_at
                    /\ store'.posts[p].external_id = store.posts[p].external_id
              /\ ReturnedPosted(store', p) => plat'[p] <= 1]_vars

\* the cost rows of an agent
CostOf(st, a) == SelectSeq(st.cost, LAMBDA row : row.agent = a)

\* what C8 says of a daily routine run for an agent that is not runnable
C8_Daily ==
    (ret'.op = "daily" /\ ~IsAgentRunnable(store.agents[ret'.agent], UtcDt(clock))) =>
        LET reason == SkipReason(store.agents[ret'.agent])
        IN /\ ret'.status = "skip" /\ ret'.reason = reason
           /\ store'.audits = Append(store.audits, AuditRow(ret'.agent, ret'.target_date, "daily_routine",
                                                            "execution_skip", "skipped", reason))
           /\ store'.posts = store.posts /\ store'.metrics = store.metrics
           /\ store'.cost = store.cost /\ store'.pdca = store.pdca

\* what C8 says of a posting run for the i-th post it claimed, a post of an
\* agent that is not runnable when the run starts
C8_Posting(i) ==
    (/\ ret'.op = "posting" /\ i \in DOMAIN ret'.batch
     /\ ~IsAgentRunnable(store.agents[store.posts[ret'.batch[i]].agent], UtcDt(clock))) =>
        LET p == ret'.batch[i]
            a == store.posts[p].agent
        IN /\ \E j \in DOMAIN ret'.results :
                  ret'.results[j] = [post |-> p, status |-> "skipped", reason |-> SkipReason(store.agents[a])]
           /\ store'.posts[p].posted_at = NoTime
           /\ plat'[p] = plat[p]
           /\ CostOf(store', a) = CostOf(store, a)

\* C8: an agent that is not runnable does no work: run_daily_routine returns
\* skip with reason agent_stopped or agent_status_<status>, records one
\* daily_routine/execution_skip audit and creates no Post, PostMetrics, CostLog
\* or DailyPDCA row; run_posting_jobs returns skipped with that reason for each
\* due post of the agent, leaves posted_at null, does not call the poster and
\* leaves the agent's CostLog alone.
C8_NonRunnableNoWork ==
    [][C8_Daily /\ \A i \in 1..Len(store.posts) : C8_Posting(i)]_vars

\* C5: no two posts of one agent with the same normalized content and the
\* same content_bucket_date are both published (posted_at non-null), whatever
\* planning and posting runs have happened.
C5_Dedupe ==
    \A p, q \in DOMAIN store.posts :
        (/\ p < q
         /\ store.posts[p].agent = store.posts[q].agent
         /\ store.posts[p].content_bucket_date # NoDate
         /\ store.posts[p].content_bucket_date = store.posts[q].content_bucket_date
         /\ NormalizePostContent(store.posts[p].content, store.posts[p].thread_parts)
              = NormalizePostContent(store.posts[q].content, store.posts[q].thread_parts))
        => (store.posts[p].posted_at = NoTime \/ store.posts[q].posted_at = NoTime)

\* C5 witness: a posting run has skipped a post as duplicate_content and
\* committed; the post and a published one of the same agent, spelled
\* differently, share normalized content and bucket date
C5_Witness ==
    /\ ret.op = "posting" /\ ~ret.raised
    /\ \E i \in DOMAIN ret.results, q \in DOMAIN store.posts :
          LET p == ret.results[i].post
          IN /\ ret.results[i].reason = "duplicate_content"
             /\ store.posts[p].agent = store.posts[q].agent
             /\ store.posts[p].posted_at = NoTime /\ store.posts[q].posted_at # NoTime
             /\ store.posts[p].content # store.posts[q].content
             /\ store.posts[p].content_bucket_date = store.posts[q].content_bucket_date
             /\ store.posts[p].content_hash = store.posts[q].content_hash

\* C6: once a Post row has posted_at set, no run of the posting worker or of
\* the daily routine, its external-post upsert included, sets it back to null.
C6_PostedAtMonotone ==
    [][\A p \in DOMAIN store.posts :
          store.posts[p].posted_at # NoTime => store'.posts[p].posted_at # NoTime]_vars

\* C6 witness: a daily routine has ingested the platform's listing of a post
\* the worker had published: the upsert found the row, and the row is still published
C6_Witness ==
    /\ ret.op = "daily" /\ ret.status = "success" /\ ret.listing = "own"
    /\ \E i \in DOMAIN store.metrics :
          LET p == store.metrics[i].post
          IN /\ store.posts[p].external_id # NoExt
             /\ store.posts[p].external_id[1] = p
             /\ store.posts[p].agent = ret.agent
             /\ store.posts[p].posted_at # NoTime

\* the Post rows of an agent that carry the external id
C11_PostsOf(st, a, ext) == {p \in DOMAIN st.posts : st.posts[p].agent = a /\ st.posts[p].external_id = ext}

\* the confirmed PostMetrics rows of a post
C11_MetricsOf(st, p) == {i \in DOMAIN st.metrics : st.metrics[i].post = p}

\* C11: a daily routine run that succeeds leaves exactly one Post row and
\* exactly one confirmed PostMetrics row for each external post it was given
\* and no post with two confirmed rows; when every external post it was given
\* had been ingested before, it adds no PostMetrics row and no Post row for
\* those ids; a run that does not succeed adds no PostMetrics row.
C11_ConfirmedMetricsIdempotent ==
    [][ret'.op = "daily" =>
          IF ret'.status = "success"
          THEN /\ \A k \in DOMAIN ret'.externals :
                     /\ Cardinality(C11_PostsOf(store', ret'.agent, ret'.externals[k])) = 1
                     /\ \A p \in C11_PostsOf(store', ret'.agent, ret'.externals[k]) :
                           Cardinality(C11_MetricsOf(store', p)) = 1
               /\ \A p \in DOMAIN store'.posts : Cardinality(C11_MetricsOf(store', p)) <= 1
               /\ (\A k \in DOMAIN ret'.externals :
                      \E p \in C11_PostsOf(store, ret'.agent, ret'.externals[k]) : C11_MetricsOf(store, p) # {})
                   => /\ store'.metrics = store.metrics
                      /\ \A k \in DOMAIN ret'.externals :
                            C11_PostsOf(store', ret'.agent, ret'.externals[k])
                              = C11_PostsOf(store, ret'.agent, ret'.externals[k])
          ELSE store'.metrics = store.metrics]_vars

\* C11 witness: a daily routine has run again over the two posts the platform
\* lists, found both ingested, and created no confirmed row
C11_Witness ==
    /\ ret.op = "daily" /\ ret.status = "success" /\ ret.listing = "foreign"
    /\ Len(ret.externals) = 2 /\ ret.created = 0
    /\ Len(store.metrics) = 2


\* the case of C12: outside real-platform mode the run claims, as its first
\* post, a reply or quote p whose target is no status URL, and p passes the
\* gates ahead of the publication: its agent is runnable, the engagement rate
\* limit is not reached, no published post has its content key, and the
\* budget admits the reservation
C12_Case(p) ==
    LET post == store.posts[p]
        a == post.agent
        agent == store.agents[a]
        content_hash == IF post.content_hash # NoHash THEN post.content_hash
                        ELSE <<"#">> \o NormalizePostContent(post.content, post.thread_parts)
        bucket_date == IF post.content_bucket_date # NoDate THEN post.content_bucket_date ELSE DateOf(clock)
    IN /\ ret'.op = "posting" /\ ~env.real
       /\ ret'.batch # <<>> /\ ret'.batch[1] = p
       /\ post.type \in {"reply", "quote_rt"} /\ post.target = "bad"
       /\ agent.status = "active" /\ agent.stop_until.null
       /\ Cardinality({i \in DOMAIN store.engaged : /\ store.engaged[i].agent = a
                                                     /\ store.engaged[i].executed_at \div DayLen = clock \div DayLen}) + 1 <= 3
       /\ ~\E q \in DOMAIN store.posts : /\ q # p /\ store.posts[q].agent = a
                                          /\ store.posts[q].posted_at # NoTime
                                          /\ store.posts[q].content_hash = content_hash
                                          /\ store.posts[q].content_bucket_date = bucket_date
       /\ store.cost = <<>> /\ agent.daily_budget >= 1 /\ agent.budget_split_x >= 1

\* C12: a due reply or quote whose target_post_url is no status URL, and
\* which reaches the publication step, is returned as skipped with reason
\* invalid_target_url; its posted_at and external_id stay null, the poster is
\* not called for it, it is audited as skipped and not as failed, and when
\* the run publishes nothing the CostLog rows of its agent are unchanged.
C12_InvalidTargetUrl ==
    [][\A p \in DOMAIN store.posts : C12_Case(p) =>
          /\ \E j \in DOMAIN ret'.results :
                ret'.results[j] = [post |-> p, status |-> "skipped", reason |-> "invalid_target_url"]
          /\ store'.posts[p].posted_at = NoTime /\ store'.posts[p].external_id = NoExt
          /\ plat'[p] = plat[p]
          /\ \E k \in DOMAIN store'.audits :
                /\ k > Len(store.audits)
                /\ store'.audits[k] = AuditRow(store.posts[p].agent, DateOf(clock), "posting_jobs", "posting",
                                               "skipped", "invalid_target_url")
          /\ (\A j \in DOMAIN ret'.results : ret'.results[j].status # "posted")
                => CostOf(store', store.posts[p].agent) = CostOf(store, store.posts[p].agent)]_vars


\* C13: a daily routine run that returns skip with reason budget_exceeded,
\* rate_limited or missing_user_id leaves the CostLog rows as they were and
\* creates no Post and no PostMetrics row.
C13_SkipSpendsNothing ==
    [][(/\ ret'.op = "daily" /\ ret'.status = "skip"
        /\ ret'.reason \in {"budget_exceeded", "rate_limited", "missing_user_id"})
       => /\ store'.cost = store.cost
          /\ store'.posts = store.posts
          /\ store'.metrics = store.metrics]_vars

\* C13 witness: an agent that has spent on the target date is skipped by the
\* daily routine as budget_exceeded, and its CostLog row holds what was spent before
C13_Witness ==
    /\ ret.op = "daily" /\ ret.status = "skip" /\ ret.reason = "budget_exceeded"
    /\ \E i \in DOMAIN store.cost : /\ store.cost[i].agent = ret.agent /\ store.cost[i].date = ret.target_date
                                     /\ store.cost[i].db.total > 0
    /\ \E i \in DOMAIN store.pdca : store.pdca[i].agent = ret.agent /\ store.pdca[i].date = ret.target_date


\* the EngagementAction rows of an agent executed on a date, of whatever type
C14_Rows(engaged, a, d) == SelectSeq(engaged, LAMBDA row : row.agent = a /\ row.executed_at \div DayLen = d)

\* C14: is_limited(action, requested) is true iff the EngagementAction rows
\* of the agent executed on the date, of all action types together, plus
\* requested exceed daily_total_limit; another action type gives the same
\* answer, and the call changes no row.
C14_IsLimited ==
    [][ret'.op = "is_limited" =>
          /\ ret'.result <=>
                (Len(C14_Rows(store.engaged, ret'.agent, ret'.target_date)) + ret'.requested > ret'.daily_total_limit)
          /\ \A t \in ActionType :
                IsRateLimited(store.engaged, ret'.agent, ret'.target_date, t, ret'.requested, ret'.daily_total_limit)
                  = ret'.result
          /\ store' = store]_vars

\* C14 witness: the limiter answers true for an action type of which the
\* agent has executed nothing that day: actions of other types fill the limit
C14_Witness ==
    /\ ret.op = "is_limited" /\ ret.result /\ ret.daily_total_limit = 3 /\ ret.requested = 2
    /\ \A i \in DOMAIN store.engaged : store.engaged[i].action_type # ret.action_type
    /\ \E i, j \in DOMAIN store.engaged : store.engaged[i].action_type # store.engaged[j].action_type


\* C15: run_all_agents calls the daily routine exactly once for each agent
\* whose status is active, in ascending id order, and for no other agent; a
\* routine that raises is reported as failed, its exception type is stored
\* under analytics_summary.error of the agent's DailyPDCA of the target date,
\* and the agents behind it are still called.
C15_SchedulerFanOut ==
    [][ret'.op = "all_agents" =>
          LET active == {a \in Agents : store.agents[a].status = "active"}
              called == ret'.called
          IN /\ Range(called) = active
             /\ Len(called) = Cardinality(active)
             /\ \A i, j \in DOMAIN called : i < j => called[i] < called[j]
             /\ Len(ret'.results) = Len(called)
             /\ \A i \in DOMAIN called : ret'.results[i].agent = called[i]
             /\ \A i \in DOMAIN called :
                   ret'.results[i].status = "failed" =>
                      \E k \in DOMAIN store'.pdca :
                          /\ store'.pdca[k].agent = called[i]
                          /\ store'.pdca[k].date = ret'.target_date
                          /\ store'.pdca[k].error = ret'.results[i].reason]_vars

\* C15 witness: the routine of agent 1 raised, the error is on its DailyPDCA
\* row, and the routine of agent 2 ran to success behind it
C15_Witness ==
    /\ ret.op = "all_agents"
    /\ Len(ret.results) = 2
    /\ ret.results[1].agent = 1 /\ ret.results[1].status = "failed"
    /\ ret.results[2].agent = 2 /\ ret.results[2].status = "success"
    /\ \E k \in DOMAIN store.pdca : store.pdca[k].agent = 1 /\ store.pdca[k].error = ret.results[1].reason
    /\ \E k \in DOMAIN store.pdca : store.pdca[k].agent = 2 /\ store.pdca[k].analysis = "completed"


\* C16: when the poster raises for a claimed post, run_posting_jobs still
\* returns; the post is returned as failed, its posted_at stays null, the
\* run stores one failed posting audit row for each post it returns as
\* failed, every post of the batch has its result, and the posts returned as
\* posted are stored as posted.
C16_PerPostIsolation ==
    [][(ret'.op = "posting" /\ ret'.refused # <<>>) =>
          /\ ~ret'.raised
          /\ \A k \in DOMAIN ret'.refused :
                /\ \E j \in DOMAIN ret'.results :
                      ret'.results[j].post = ret'.refused[k] /\ ret'.results[j].status = "failed"
                /\ store'.posts[ret'.refused[k]].posted_at = NoTime
          /\ Cardinality({k \in DOMAIN store'.audits : /\ k > Len(store.audits)
                                                        /\ store'.audits[k].source = "posting_jobs"
                                                        /\ store'.audits[k].event_type = "posting"
                                                        /\ store'.audits[k].status = "failed"})
                = Cardinality({j \in DOMAIN ret'.results : ret'.results[j].status = "failed"})
          /\ \A i \in DOMAIN ret'.batch : \E j \in DOMAIN ret'.results : ret'.results[j].post = ret'.batch[i]
          /\ \A j \in DOMAIN ret'.results :
                ret'.results[j].status = "posted" => store'.posts[ret'.results[j].post].posted_at = clock]_vars


\* due at the clock of the run: scheduled, not later than now, unpublished
C17_Due(p) ==
    /\ store.posts[p].scheduled_at # NoTime
    /\ store.posts[p].scheduled_at <= clock
    /\ store.posts[p].posted_at = NoTime

\* p sorts ahead of q in ascending (scheduled_at, id) order
C17_Before(p, q) ==
    \/ store.posts[p].scheduled_at < store.posts[q].scheduled_at
    \/ (store.posts[p].scheduled_at = store.posts[q].scheduled_at /\ p < q)

\* one posting run claims due posts only, the first ones in ascending
\* (scheduled_at, id) order, as many as sizeOk admits; a run that returns
\* has one result for each and reports them in that order (the results the
\* pre-flight of real-platform mode adds, all skips, come ahead of the main
\* loop's), and no other post is touched or published
C17_Run(sizeOk) ==
    ret'.op = "posting" =>
        /\ \A i \in DOMAIN ret'.batch : C17_Due(ret'.batch[i])
        /\ \A i, j \in DOMAIN ret'.batch : i < j => C17_Before(ret'.batch[i], ret'.batch[j])
        /\ \A p \in DOMAIN store.posts :
              (C17_Due(p) /\ p \notin Range(ret'.batch))
                 => \A i \in DOMAIN ret'.batch : C17_Before(ret'.batch[i], p)
        /\ sizeOk
        /\ ~ret'.raised =>
              /\ \A i \in DOMAIN ret'.batch :
                    Cardinality({j \in DOMAIN ret'.results : ret'.results[j].post = ret'.batch[i]}) = 1
              /\ \A j, k \in DOMAIN ret'.results :
                    (j < k /\ (~env.real \/ {ret'.results[j].status, ret'.results[k].status} \subseteq {"posted", "failed"}))
                       => C17_Before(ret'.results[j].post, ret'.results[k].post)
        /\ \A p \in DOMAIN store.posts :
              p \notin Range(ret'.batch) => (plat'[p] = plat[p] /\ store'.posts[p] = store.posts[p])

\* C17 as stated: one run_posting_jobs call considers only posts with
\* scheduled_at non-null, scheduled_at <= now and posted_at null, at most
\* POSTING_BATCH_SIZE of them, namely the first ones in ascending
\* (scheduled_at, id) order, and processes them in that order; a post with
\* scheduled_at > now or scheduled_at null is never published.
C17_AtMostBatchSize ==
    [][C17_Run(env.batch_size.valid => Len(ret'.batch) <= env.batch_size.value)]_vars

\* C17, amended: the run claims the first max(1, POSTING_BATCH_SIZE) due
\* posts in ascending (scheduled_at, id) order, the first 10 when the
\* variable is unset or no integer, or all of them when fewer are due, and
\* processes them in that order; a post with scheduled_at > now or
\* scheduled_at null is never published.
C17_ClaimSelection ==
    [][C17_Run(LET limit == IF env.batch_size.valid
                            THEN (IF env.batch_size.value >= 1 THEN env.batch_size.value ELSE 1)
                            ELSE 10
                   due == {p \in DOMAIN store.posts : C17_Due(p)}
               IN Len(ret'.batch) = Min(limit, Cardinality(due)))]_vars

\* C17 witness: with POSTING_BATCH_SIZE=0 a run has claimed and published one
\* post, the one scheduled first though its id is the highest, while a post
\* scheduled later stays due and a post without schedule stays unpublished
C17_Witness ==
    /\ ret.op = "posting" /\ ~ret.raised
    /\ env.batch_size = EnvInt(0)
    /\ ret.batch = <<3>> /\ ret.results = <<[post |-> 3, status |-> "posted", reason |-> NULL]>>
    /\ store.posts[3].posted_at = clock
    /\ store.posts[1].posted_at = NoTime /\ store.posts[1].scheduled_at # NoTime
    /\ store.posts[1].scheduled_at <= clock
    /\ store.posts[2].scheduled_at = NoTime /\ store.posts[2].posted_at = NoTime
    /\ plat[1] = plat[2]


C19_Asked == oauth'.calls = oauth.calls + 1 /\ oauth'.out.op = "callback"

\* the oauth_states table holds a row for the state that has not expired
C19_Valid(state) == \E r \in oauth.states : r.state = state /\ ~(r.expires_at < oauth.now)

\* the request fails with oauth_state_invalid, starts no exchange and leaves
\* the tokens and the state rows as they are
C19_Rejected ==
    /\ oauth'.out.status = 400 /\ oauth'.out.detail = "oauth_state_invalid"
    /\ oauth'.cb = oauth.cb /\ oauth'.issued = oauth.issued /\ oauth'.failed = oauth.failed
    /\ oauth'.tokens = oauth.tokens /\ oauth'.states = oauth.states

\* C19: a callback with an unknown or expired state fails with
\* oauth_state_invalid, performs no token exchange and changes no XAuthToken
\* row; a callback that finds a valid state deletes the state row before the
\* exchange, so any later callback with the same state fails with
\* oauth_state_invalid, also when the first callback's token exchange failed.
C19_StateSingleUse ==
    [][/\ (C19_Asked /\ ~C19_Valid(oauth'.out.state)) => C19_Rejected
       /\ (C19_Asked /\ C19_Valid(oauth'.out.state)) =>
             /\ oauth'.out.status = 0
             /\ oauth'.cb[oauth'.out.cb].pc = "found" /\ oauth'.cb[oauth'.out.cb].state = oauth'.out.state
       /\ \A c \in Callbacks :
             oauth'.cb[c].pc = "exchange" => ~\E r \in oauth'.states : r.state = oauth'.cb[c].state
       /\ (oauth'.issued # oauth.issued \/ oauth'.failed # oauth.failed \/ oauth'.tokens # oauth.tokens) =>
             \E c \in Callbacks : /\ oauth.cb[c].pc = "exchange" /\ oauth'.cb[c].pc = "idle"
                                  /\ oauth.cb[c].state \in oauth.used
       /\ (C19_Asked /\ oauth'.out.state \in oauth.used) => C19_Rejected
       /\ \A r \in oauth'.states : r.state \notin oauth'.used]_vars

\* C19 witness: a callback has been turned away with oauth_state_invalid for
\* a state that an earlier callback found valid and deleted, and whose
\* token exchange then failed
C19_Witness ==
    /\ oauth.out.op = "callback" /\ oauth.out.status = 400 /\ oauth.out.detail = "oauth_state_invalid"
    /\ oauth.out.state \in oauth.failed
    /\ oauth.out.state \in oauth.used
    /\ \A a \in OAccounts : ~oauth.tokens[a].present


\* C20: token_for_agent(agent, now) returns the stored access token without
\* contacting the provider iff expires_at > now + 120 s; when expires_at <=
\* now + 120 s it refreshes first and, on success, overwrites the single
\* token row of the account and returns the new access token; when the
\* refresh fails it raises XAuthRefreshError and the stored access token,
\* refresh token and expires_at are unchanged.
C20_TokenRefresh ==
    [][(oauth'.calls = oauth.calls + 1 /\ oauth'.out.op = "token_for_agent") =>
          LET a == oauth'.out.agent
              token == oauth.tokens[a]
              fresh == token.expires_at > oauth.now + RefreshMargin
          IN token.present =>
                /\ fresh <=> (/\ oauth'.out.result = "returned"
                              /\ oauth'.out.access_token = token.access_token
                              /\ ~oauth'.out.contacted)
                /\ fresh => oauth'.tokens = oauth.tokens
                /\ (~fresh /\ oauth'.out.outcome = "ok") =>
                      /\ oauth'.out.result = "returned"
                      /\ oauth'.tokens[a].present
                      /\ oauth'.tokens[a].access_token # token.access_token
                      /\ oauth'.out.access_token = oauth'.tokens[a].access_token
                      /\ \A b \in OAccounts \ {a} : oauth'.tokens[b] = oauth.tokens[b]
                /\ (~fresh /\ oauth'.out.outcome # "ok") =>
                      /\ oauth'.out.result = "raised"
                      /\ oauth'.out.exc = "XAuthRefreshError"
                      /\ oauth'.tokens = oauth.tokens]_vars


\* exactly one audit row has been appended, and it is row
C21_OneAudit(row) ==
    /\ Len(gaudit') = Len(gaudit) + 1
    /\ SubSeq(gaudit', 1, Len(gaudit)) = gaudit
    /\ gaudit'[Len(gaudit')] = row

\* C21: stop with a non-blank reason sets status=stopped, stop_reason,
\* stopped_at=now and stop_until (a value without zone read as UTC) and
\* appends exactly one audit row; resume sets status=active, clears
\* stop_reason, stopped_at and stop_until and appends exactly one audit row;
\* after resume the agent is runnable at any time, whatever stop preceded
\* it; stop with a blank reason is rejected with reason_required and
\* changes nothing.
C21_StopResume ==
    [][/\ (gout'.op = "stop" /\ gout'.raw \in {"maint", " maint "}) =>
             /\ ~gout'.rejected
             /\ gagent'.status = "stopped" /\ gagent'.stop_reason = "maint"
             /\ gagent'.stopped_at = [null |-> FALSE, wall |-> gnow, tz |-> "utc"]
             /\ gagent'.stop_until.null = gout'.until.null
             /\ ~gout'.until.null =>
                   /\ gagent'.stop_until.wall = gout'.until.wall
                   /\ gagent'.stop_until.tz = (IF gout'.until.tz = "plus1" THEN "plus1" ELSE "utc")
             /\ C21_OneAudit([agent |-> 1, date |-> gnow \div DayLen, source |-> "dashboard",
                              event_type |-> "manual_stop", status |-> "success", reason |-> "maint"])
             /\ gpdca' = gpdca
       /\ (gout'.op = "stop" /\ gout'.raw = "  ") =>
             /\ gout'.rejected
             /\ gagent' = gagent /\ gaudit' = gaudit /\ gpdca' = gpdca
       /\ gout'.op = "resume" =>
             /\ gagent'.status = "active" /\ gagent'.stop_reason = NULL
             /\ gagent'.stopped_at.null /\ gagent'.stop_until.null
             /\ C21_OneAudit([agent |-> 1, date |-> gnow \div DayLen, source |-> "dashboard",
                              event_type |-> "manual_resume", status |-> "success", reason |-> NULL])
             /\ gpdca' = gpdca
             /\ \A t \in 0..MaxTime : IsAgentRunnable(gagent', UtcDt(t))]_vars

\* C21 witness: an agent that was stopped automatically and then by hand,
\* until a time still ahead, has been resumed and is active
C21_Witness ==
    /\ gout.op = "resume" /\ gagent.status = "active" /\ gagent.stop_until.null
    /\ Len(gaudit) = 3
    /\ gaudit[1].event_type = "auto_stop"
    /\ gaudit[2].event_type = "manual_stop"
    /\ gaudit[3].event_type = "manual_resume"
    /\ gnow < MaxTime

----------------------------------------------------------------------------
(* Properties of the planner *)

\* the number of drafts of one type in a plan
C22_Count(drafts, type) == Cardinality({i \in DOMAIN drafts : drafts[i].type = type})

\* floor(N * r) of a ratio of r fifths
C22_Floor(N, r) == (N * r) \div RatioDen

C23_EngagementCap ==
    (plan.called /\ plan.out.exc = NULL /\ plan.posts_per_day >= 1)
    => LET N == plan.posts_per_day
           drafts == plan.out.drafts
           mix == plan.out.mix
           replies == C22_Count(drafts, "reply")
           quotes == C22_Count(drafts, "quote_rt")
           excess == Max(0, mix.reply + mix.quote - 3)
       IN /\ replies + quotes <= 3
          /\ plan.targets # <<>>
                => /\ quotes = mix.quote - Min(excess, mix.quote)
                   /\ replies = mix.reply - (excess - Min(excess, mix.quote))
                   /\ C22_Count(drafts, "thread") = mix.thread
          /\ plan.targets = <<>>
                => /\ replies = 0 /\ quotes = 0
                   /\ C22_Count(drafts, "thread") = Min(N, mix.thread + mix.reply + mix.quote)
          /\ \A i \in DOMAIN drafts :
                IF drafts[i].type \in {"reply", "quote_rt"}
                THEN drafts[i].target_post_url \in Range(plan.targets)
                ELSE drafts[i].target_post_url = NULL

\* four replies and one quote planned: the quote and one reply are dropped
C23_Witness ==
    /\ plan.called /\ plan.out.exc = NULL
    /\ plan.targets # <<>>
    /\ plan.out.mix = [thread |-> 0, reply |-> 4, quote |-> 1]
    /\ C22_Count(plan.out.drafts, "reply") = 3
    /\ C22_Count(plan.out.drafts, "quote_rt") = 0
    /\ C22_Count(plan.out.drafts, "tweet") = 2

----------------------------------------------------------------------------
(* Properties of the fetch step *)

\* the FetchLog rows of (a, d) that record a fetch: status succeeded or failed
C24_Used(rows, a, d) ==
    Cardinality({i \in DOMAIN rows : /\ rows[i].agent = a /\ rows[i].date = d
                                     /\ rows[i].status # "skipped"})

\* C24: over any sequence of daily-routine runs the succeeded and failed
\* FetchLog rows of an (agent, date) never exceed web_fetch_max; skipped rows
\* do not count for FetchLimiter.is_limited; a run that finds the limiter
\* limited calls no fetch and writes one skipped row with failure_reason
\* fetch_limit_reached.
C24_FetchCap ==
    [][LET agent_id == fetches'.agent
           d == fetches'.date
           web_fetch_max == IntToggle(fetches.toggle)
       IN /\ \A a \in Agents, day \in Dates :
                /\ C24_Used(fetches'.rows, a, day) <= IntToggle(fetches'.toggle)
                /\ FetchIsLimited(fetches'.rows, a, day, 1, IntToggle(fetches'.toggle))
                      <=> C24_Used(fetches'.rows, a, day) + 1 > IntToggle(fetches'.toggle)
          /\ \A i \in DOMAIN fetches'.rows :
                fetches'.rows[i].status \in {"succeeded", "failed", "skipped"}
          /\ (fetches'.record = "url" /\ C24_Used(fetches.rows, agent_id, d) >= web_fetch_max)
                => /\ ~fetches'.fetched
                   /\ fetches'.skipped = "fetch_limit_reached"
                   /\ fetches'.commits
                         => fetches'.rows = Append(fetches.rows,
                                                   FetchLog(agent_id, d, "skipped", "fetch_limit_reached"))
          /\ fetches'.fetched => C24_Used(fetches.rows, agent_id, d) < web_fetch_max
      ]_vars

\* with web_fetch_max 1: a run skipped for the budget, a run whose fetch failed,
\* then a run that finds the limit reached
C24_Witness ==
    /\ IntToggle(fetches.toggle) = 1
    /\ fetches.rows = <<FetchLog(1, 0, "skipped", "fetch_budget_exceeded"),
                        FetchLog(1, 0, "failed", "failed"),
                        FetchLog(1, 0, "skipped", "fetch_limit_reached")>>
    /\ fetches.skipped = "fetch_limit_reached" /\ ~fetches.fetched

----------------------------------------------------------------------------
(* Properties of the budget across handlers *)

\* the sum of column f over the committed CostLog rows of (a, d)
C25_Sum(a, d, f) ==
    SumOver(store.cost, {i \in DOMAIN store.cost : store.cost[i].agent = a /\ store.cost[i].date = d}, f)

\* C25: after any sequence of daily-routine and posting runs, one at a time,
\* the CostLog sums of every (agent, date) stay within the agent's limits:
\* x_api_cost <= split_x, llm_cost <= split_llm and total <= daily_budget.
C25_EndToEndBudget ==
    \A i \in DOMAIN store.cost :
        LET a == store.cost[i].agent
            d == store.cost[i].date
        IN a \in Agents =>
              /\ C25_Sum(a, d, "x") <= store.agents[a].budget_split_x * 100
              /\ C25_Sum(a, d, "llm") <= store.agents[a].budget_split_llm * 100
              /\ C25_Sum(a, d, "total") <= store.agents[a].daily_budget * 100

----------------------------------------------------------------------------
(* Properties of the engagement cap across posting runs *)

\* the replies and quotes of agent a published on day d
C26_Published(a, d) ==
    {p \in DOMAIN store.posts : /\ store.posts[p].agent = a
                                 /\ store.posts[p].type \in {"reply", "quote_rt"}
                                 /\ store.posts[p].posted_at # NoTime
                                 /\ DateOf(store.posts[p].posted_at) = d}

\* C26: over any sequence of posting runs on one date, the replies and quotes
\* published for an agent on that date plus the agent's EngagementAction rows
\* of that date never exceed reply_quote_daily_max (3).
C26_EngagementCapAcrossRuns ==
    \A a \in Agents, d \in 0..MaxClock :
        Cardinality(C26_Published(a, d)) + CountTotal(store.engaged, a, d) <= ReplyQuoteDailyMax

----------------------------------------------------------------------------
(* Properties of the daily routine's budget failures *)

\* C27: whatever the budget and whichever reserve fails (pre-flight, target
\* harvest, x search, web search, fetch, summarize, plan), run_daily_routine
\* returns a result and raises no BudgetExceededError to its caller.
C27_BudgetFailureContained ==
    ret.op = "daily" => ~(ret.raised /\ ret.reason = "BudgetExceededError")

----------------------------------------------------------------------------
(* Properties of the CostLog and DailyPDCA keys *)

\* C28: after any sequence of ledger commits and reconciler writes, by the
\* daily routine and by posting workers, there is at most one CostLog row for
\* each (agent_id, date).
C28_OneCostLogPerDay ==
    \A i, j \in DOMAIN store.cost :
        (store.cost[i].agent = store.cost[j].agent /\ store.cost[i].date = store.cost[j].date) => i = j

\* C29: after any sequence of daily-routine runs, scheduler error recordings
\* and posting runs, a batch with several rate-limited or failed posts of one
\* agent included, there is at most one DailyPDCA row for each (agent_id, date).
C29_OnePdcaPerDay ==
    \A i, j \in DOMAIN store.pdca :
        (store.pdca[i].agent = store.pdca[j].agent /\ store.pdca[i].date = store.pdca[j].date) => i = j

----------------------------------------------------------------------------
(* Properties of the posting auto-stop *)

\* the posting audit rows of agent a, oldest first
C30_Outcomes(audits, a) ==
    SelectSeq(audits, LAMBDA row : row.agent = a /\ row.source = "posting_jobs" /\ row.event_type = "posting")

\* the posting worker has just stopped agent a for posting failures
C30_Stopped(a) ==
    /\ ret'.op = "posting"
    /\ store'.agents[a].status = "stopped"
    /\ store'.agents[a].stop_reason = "auto_anomaly_posting_failures"
    /\ store.agents[a].status # "stopped"

\* C30: the posting worker stops an agent with reason
\* auto_anomaly_posting_failures only when the agent's three most recent
\* posting outcomes are failed publish attempts; a budget_exceeded, rate_limited,
\* duplicate_content, invalid_target_url or guard outcome does not count as one
\* of the three.
C30_OnlyPublishFailures ==
    [][\A a \in Agents :
          C30_Stopped(a) =>
              LET stops == {k \in DOMAIN store'.audits :
                               /\ store'.audits[k].agent = a
                               /\ store'.audits[k].event_type = "auto_stop"
                               /\ store'.audits[k].reason = "auto_anomaly_posting_failures"}
                  last == CHOOSE k \in stops : \A j \in stops : j <= k
                  rows == C30_Outcomes(SubSeq(store'.audits, 1, last - 1), a)
                  n == Len(rows)
              IN /\ stops # {}
                 /\ n >= 3
                 /\ \A i \in (n - 2)..n :
                       /\ rows[i].status = "failed"
                       /\ rows[i].reason \in {"RuntimeError", "ValueError"}
      ]_vars

----------------------------------------------------------------------------
(* Properties of the OAuth auto-stop *)

\* the posting worker has just stopped agent a for refresh failures
C31_Stopped(a) ==
    /\ ret'.op = "posting"
    /\ store'.agents[a].status = "stopped"
    /\ store'.agents[a].stop_reason = "auto_anomaly_oauth_refresh_failures"
    /\ store.agents[a].status # "stopped"

\* the audit rows that tell how a token acquisition for agent a ended: a
\* failed refresh, or (the platform being the real one) a post that went on
\* to its reserve, which only a post with a token does
C31_Acquisitions(audits, a) ==
    SelectSeq(audits, LAMBDA row :
        /\ row.agent = a
        /\ \/ row.source = "oauth" /\ row.event_type = "refresh"
           \/ row.source = "posting_jobs" /\ row.event_type = "posting" /\ row.status \in {"success", "failed"})

\* C31: the worker stops an agent with reason
\* auto_anomaly_oauth_refresh_failures only when the agent's three most recent
\* token acquisitions all failed; a successful acquisition between two
\* failures resets the count.
C31_ThreeConsecutive ==
    [][\A a \in Agents :
          C31_Stopped(a) =>
              LET stops == {k \in DOMAIN store'.audits :
                               /\ store'.audits[k].agent = a
                               /\ store'.audits[k].event_type = "auto_stop"
                               /\ store'.audits[k].reason = "auto_anomaly_oauth_refresh_failures"}
                  last == CHOOSE k \in stops : \A j \in stops : j <= k
                  rows == C31_Acquisitions(SubSeq(store'.audits, 1, last - 1), a)
                  n == Len(rows)
              IN /\ stops # {}
                 /\ n >= 3
                 /\ \A i \in (n - 2)..n : rows[i].source = "oauth" /\ rows[i].status = "failed"
      ]_vars

----------------------------------------------------------------------------
(* Properties of the posting worker's spending *)

\* column f of the CostLog rows of (a, d), added up
C32_Spent(cost, a, d, f) ==
    SumOver(cost, {i \in DOMAIN cost : cost[i].agent = a /\ cost[i].date = d}, f)

\* the results among the first n of a run that are publications of agent a
C32_Posted(st, results, n, a) ==
    Cardinality({j \in 1..n : results[j].status = "posted" /\ st.posts[results[j].post].agent = a})

\* reserving 1.00 for agent a on date d fits when k posts of the agent have
\* been published since the CostLog rows of st were written
C32_Fits(st, a, d, k) ==
    /\ C32_Spent(st.cost, a, d, "x") + (k + 1) * PostXCost <= st.agents[a].budget_split_x * 100
    /\ C32_Spent(st.cost, a, d, "total") + (k + 1) * PostXCost <= st.agents[a].daily_budget * 100

----------------------------------------------------------------------------
(* Properties of concurrent ledgers *)

\* both tasks are through: no reservation is held and no transaction has uncommitted work
C33_AfterBoth ==
    /\ tasks.commits >= 2
    /\ \A t \in Tasks :
          /\ tasks.ledger[t].x_reserved = 0 /\ tasks.ledger[t].llm_reserved = 0
          /\ tasks.moved[t] = NothingMoved
          /\ \A i \in DOMAIN tasks.rows : tasks.rows[i].owner = NoTask /\ ~tasks.rows[i].loaded[t]

\* C33: two ledgers of one (agent, date) that both reserved before either
\* committed may together commit more than a limit; after both commits every
\* reserve of a positive amount that touches an exceeded bucket, and every
\* reserve of a positive amount when the daily total is exceeded, fails on
\* any ledger of that (agent, date).
C33_RecheckAfterCommit ==
    (tasks.raced /\ C33_AfterBoth) =>
        \A t \in Tasks, x \in CostChoices, l \in CostChoices :
            LET L == tasks.ledger[t]
            IN (/\ x + l > 0
                /\ \/ x > 0 /\ tasks.paid.x > L.x_limit
                   \/ l > 0 /\ tasks.paid.llm > L.llm_limit
                   \/ tasks.paid.x + tasks.paid.llm > L.daily_limit)
               => ~ReserveOk(TaskCost(tasks.rows, t), L, x, l)

----------------------------------------------------------------------------
(* Properties of concurrent OAuth callbacks *)

\* C34: when two callbacks that carry the same valid state run concurrently,
\* at most one of them goes on to the token exchange and stores a token; the
\* other fails with oauth_state_invalid.
C34_AtomicSingleUse ==
    \A c, d \in Callbacks :
        (/\ c # d
         /\ oauth.cb[c].pc = "exchange"
         /\ oauth.cb[d].pc = "exchange")
        => oauth.cb[c].state # oauth.cb[d].state

----------------------------------------------------------------------------
(* Properties of the gates of the daily routine *)

\* the pre-flight reservation of x=1.00, llm=2.00 does not fit what the
\* CostLog rows of (a, d) hold
C35_OverBudget(st, a, d) ==
    \/ C32_Spent(st.cost, a, d, "x") + DailyXCost > st.agents[a].budget_split_x * 100
    \/ C32_Spent(st.cost, a, d, "llm") + DailyLlmCost > st.agents[a].budget_split_llm * 100
    \/ C32_Spent(st.cost, a, d, "total") + DailyXCost + DailyLlmCost > st.agents[a].daily_budget * 100

\* one more engagement action of a on d is over the routine's limit of 3
C35_Limited(st, a, d) ==
    Cardinality({i \in DOMAIN st.engaged : st.engaged[i].agent = a /\ DateOf(st.engaged[i].executed_at) = d}) + 1
        > DailyRateLimit

\* a run of the routine that came back skips with the reason of the first of
\* the gates, taken in the order given, that fails, and with none of their
\* reasons when all pass; gates is the order of "budget" and "rate"
C35_FirstFailing(gates) ==
    ret'.op = "daily" /\ ret'.status # "raised" =>
        LET a == ret'.agent
            d == ret'.target_date
            fails == [g \in {"budget", "rate"} |->
                         IF g = "budget" THEN C35_OverBudget(store, a, d) ELSE C35_Limited(store, a, d)]
            why == [g \in {"budget", "rate"} |-> IF g = "budget" THEN "budget_exceeded" ELSE "rate_limited"]
        IN IF ~IsAgentRunnable(store.agents[a], UtcDt(clock))
           THEN ret'.status = "skip" /\ ret'.reason = SkipReason(store.agents[a])
           ELSE IF fails[gates[1]] THEN ret'.status = "skip" /\ ret'.reason = why[gates[1]]
           ELSE IF fails[gates[2]] THEN ret'.status = "skip" /\ ret'.reason = why[gates[2]]
           ELSE ret'.status = "skip" => ret'.reason = "missing_user_id"

\* C35 as stated: the gates of the daily routine are evaluated in the order
\* guard, pre-flight budget reservation (x=1.00, llm=2.00), rate limit, and
\* the skip reason is that of the first failing gate; an agent that is both
\* over budget for the reservation and rate-limited on the target date gets
\* reason budget_exceeded.
C35_GateOrder == [][C35_FirstFailing(<<"budget", "rate">>)]_vars

\* C35 amended: the gates are evaluated in the order guard, rate limit,
\* pre-flight budget reservation, and the skip reason is that of the first
\* failing gate; an agent that is both over budget and rate-limited gets
\* reason rate_limited.
C35_GateOrderAmended == [][C35_FirstFailing(<<"rate", "budget">>)]_vars

\* C35 witness: the routine has skipped as rate_limited an agent whose
\* pre-flight reservation would not have fitted either
C35_Witness ==
    /\ ret.op = "daily" /\ ret.status = "skip" /\ ret.reason = "rate_limited"
    /\ C35_OverBudget(store, ret.agent, ret.target_date)
    /\ C35_Limited(store, ret.agent, ret.target_date)


\* C36: after the daily routine returns skip with reason budget_exceeded or
\* rate_limited, the DailyPDCA row of (agent, target_date) records that reason
\* in analysis.reason and in analytics_summary, whether or not a row for that
\* day existed before the call.
C36_SkipReasonRecorded ==
    [][(/\ ret'.op = "daily" /\ ret'.status = "skip"
        /\ ret'.reason \in {"budget_exceeded", "rate_limited"})
       => LET m == {i \in DOMAIN store'.pdca : /\ store'.pdca[i].agent = ret'.agent
                                                /\ store'.pdca[i].date = ret'.target_date}
          IN /\ m # {}
             /\ \A i \in m : /\ store'.pdca[i].reason = ret'.reason
                             /\ store'.pdca[i].summary = ret'.reason]_vars


\* the result r of a claimed post was written at the rate gate or after it
C38_ReachedGate(r) ==
    ~(r.status = "skipped" /\ r.reason \in {"agent_stopped", "agent_status_paused", "agent_status_disabled",
                                            "x_auth_refresh_failed"})

\* the replies and quotes of the agent of batch[k] that passed the rate gate
\* ahead of batch[k] in the batch
C38_OwnAttempts(posts, batch, results, k) ==
    Cardinality({j \in 1..(k - 1) :
        /\ posts[batch[j]].agent = posts[batch[k]].agent
        /\ posts[batch[j]].type \in {"reply", "quote_rt"}
        /\ \E i \in DOMAIN results : /\ results[i].post = batch[j]
                                     /\ C38_ReachedGate(results[i])
                                     /\ results[i].reason # "rate_limited"})

\* C38: in the posting worker's rate gate agents are independent: a reply or
\* quote of agent A is skipped as rate_limited exactly when A's own
\* EngagementAction rows of the day plus A's own earlier replies and quotes of
\* the batch plus one exceed A's limit, whatever other agents have in the batch.
C38_RateGateIndependent ==
    [][(ret'.op = "posting" /\ ~ret'.raised)
       => \A k \in DOMAIN ret'.batch, i \in DOMAIN ret'.results :
             LET post == store.posts[ret'.batch[k]]
                 r == ret'.results[i]
             IN (/\ post.type \in {"reply", "quote_rt"}
                 /\ r.post = ret'.batch[k]
                 /\ C38_ReachedGate(r))
                => ((r.status = "skipped" /\ r.reason = "rate_limited")
                    <=> CountTotal(store.engaged, post.agent, DateOf(clock))
                          + C38_OwnAttempts(store.posts, ret'.batch, ret'.results, k) + 1 > ReplyQuoteDailyMax)]_vars

----------------------------------------------------------------------------
(* Properties of the operations *)

\* the audit rows written after the last manual_resume of agent a (all rows
\* when a was never resumed)
C39_SinceResume(audits, a) ==
    LET resumes == {i \in DOMAIN audits : audits[i].agent = a /\ audits[i].event_type = "manual_resume"}
    IN IF resumes = {} THEN audits
       ELSE SubSeq(audits, (CHOOSE i \in resumes : \A k \in resumes : k <= i) + 1, Len(audits))

\* agent a has been resumed at some time
C39_Resumed(audits, a) ==
    \E i \in DOMAIN audits : audits[i].agent = a /\ audits[i].event_type = "manual_resume"

\* C39: resume clears the failure streak: when the posting worker auto-stops
\* an agent that has been resumed, three consecutive failures of the kind the
\* stop names (publication or token refresh) have been recorded after the
\* resume; failures recorded before the resume do not count.
C39_ResumeClearsStreak ==
    [][ret'.op = "posting"
       => \A a \in Agents :
             (/\ store.agents[a].status = "active"
              /\ store'.agents[a].status = "stopped"
              /\ store'.agents[a].stop_reason \in AutoReasons
              /\ C39_Resumed(store.audits, a))
             => LET posting == store'.agents[a].stop_reason = "auto_anomaly_posting_failures"
                    source == IF posting THEN "posting_jobs" ELSE "oauth"
                    event_type == IF posting THEN "posting" ELSE "refresh"
                IN RecentConsecutiveFailures(C39_SinceResume(store'.audits, a), a, source, event_type) >= 3]_vars

\* C40: a stop never expires by itself: an agent that is stopped, by the
\* dashboard with or without stop_until or by the auto-stop, stays stopped
\* and non-runnable at every time, and none of its posts is published, over
\* every step that is not a resume of that agent.
C40_StopNeverExpires ==
    [][\A a \in Agents :
          (store.agents[a].status = "stopped" /\ ~(ret'.op = "resume" /\ ret'.agent = a))
          => /\ store'.agents[a].status = "stopped"
             /\ \A now \in 0..MaxClock : ~IsAgentRunnable(store'.agents[a], UtcDt(now))
             /\ \A p \in DOMAIN store.posts :
                   store.posts[p].agent = a => store'.posts[p].posted_at = store.posts[p].posted_at
             /\ Len(store'.posts) = Len(store.posts) \/ ret'.op # "daily" \/ ret'.agent # a]_vars

\* the posting worker has just skipped a due post of an agent that the
\* dashboard stopped until a time that has passed
C40_Witness ==
    /\ ret.op = "posting"
    /\ \E i \in DOMAIN ret.results :
          LET agent == store.agents[store.posts[ret.results[i].post].agent]
          IN /\ ret.results[i].reason = "agent_stopped"
             /\ agent.status = "stopped"
             /\ ~agent.stop_until.null
             /\ Instant(AsUtc(agent.stop_until)) <= clock
             /\ store.posts[ret.results[i].post].posted_at = NoTime

----------------------------------------------------------------------------
(* Properties of the posting loop *)

\* post p is due and unposted and nothing but the claim stands between it and
\* its publication: its agent is runnable, the budget takes the posting cost,
\* it is no reply or quote and no published post of its agent has its text
C37_Publishable(p) ==
    /\ p \in DOMAIN store.posts
    /\ LET post == store.posts[p]
           agent == store.agents[post.agent]
           ledger == NewLedger(post.agent, DateOf(clock), agent.daily_budget, agent.budget_split_x,
                               agent.budget_split_llm)
       IN /\ post.posted_at = NoTime
          /\ post.scheduled_at # NoTime /\ post.scheduled_at <= clock
          /\ IsAgentRunnable(agent, UtcDt(clock))
          /\ ReserveOk(store.cost, ledger, PostXCost, 0)
          /\ post.type \notin {"reply", "quote_rt"}
          /\ \A q \in DOMAIN store.posts \ {p} :
                ~(/\ store.posts[q].agent = post.agent
                  /\ store.posts[q].posted_at # NoTime
                  /\ BuildPostContentHash(store.posts[q].content, store.posts[q].thread_parts)
                        = BuildPostContentHash(post.content, post.thread_parts))

\* C37: no head-of-line blocking: while run_posting_jobs is called again and
\* again with a poster that succeeds, no post stays due, unposted and
\* publishable for ever, however many other due posts stay unposted.
C37_NoHeadOfLineBlocking ==
    \A p \in 1..3 : ~<>[]C37_Publishable(p)

----------------------------------------------------------------------------
(* Specifications *)

SpecLedger == LInit /\ [][LNext]_vars

SpecGuard == GInit /\ [][GNext]_vars

SpecWorker == PInit /\ [][PNext]_vars

SpecWorkers == PInit /\ [][WNext]_vars

SpecRate == RInit /\ [][RNext]_vars

SpecScheduler == SInit /\ [][SNext]_vars

SpecOAuth == OInit /\ [][ONext]_vars

SpecTokenProvider == TokenInit /\ [][TokenNext]_vars

SpecPlanner == PlanInit /\ [][PlanNext]_vars

SpecFetch == FetchInit /\ [][FetchNext]_vars

SpecOps == OpsInit /\ [][OpsNext]_vars

\* the worker's scheduler calls run_posting_jobs at every interval, for ever
SpecLoop == LoopInit /\ [][LoopNext]_vars /\ WF_vars(LoopRunPostingJobs)

SpecTasks == TaskInit /\ [][TaskNext]_vars

====
